---- MODULE Spec2Model ----
(***************************************************************************)
(* Wayfinding analysis engine: the agent-based simulator                   *)
(* (src/src/wayfinding/agent_simulation.py), the Space Syntax analyzer     *)
(* (src/src/wayfinding/space_syntax.py), the WES composite scorer          *)
(* (src/src/wayfinding/wes_calculator.py) and the visibility analyzer      *)
(* (src/src/wayfinding/vga_isovists.py).                                   *)
(*                                                                         *)
(* Spec     the simulator: simulate -> _run_scenario -> one agent at a     *)
(*          time (_simulate_agent_journey, one loop iteration of           *)
(*          _apply_agent_strategy per step) -> aggregation -> rollup.      *)
(* SpecSS   the analyzer: analyze and identify_critical_nodes, call after  *)
(*          call on one instance.                                          *)
(* SpecWES  the scorer: WESCalculator.__init__ then calculate_wes.         *)
(* SpecVGA  the visibility analyzer: analyze on a new instance, then       *)
(*          _compute_isovist_polygon on the obstacles it prepared.         *)
(*                                                                         *)
(* Real numbers are exact rationals <<n, d>> with d > 0 in lowest terms;   *)
(* probabilities are integers in units of 1/ProbDen.                       *)
(***************************************************************************)
EXTENDS Integers, Sequences, FiniteSets, TLC

VARIABLES
    \* ---- AgentSimulator instance fields (agent_simulation.py:40-44)
    graph, signage_locations, landmarks,
    \* ---- numpy's global generator: the seed it was set to and how many
    \*      values were drawn since
    rng,
    \* ---- one simulate() call: its arguments, locals and position
    call, pc, scenario_idx, all_results, result,
    \* ---- one _run_scenario() call
    origin, destination, agents,
    \* ---- one agent and the locals of _apply_agent_strategy
    agent, walk,
    \* ---- history: the per-agent outcomes of the scenarios finished in this call
    outcomes,
    \* ---- WESCalculator: position, self.weights, and one calculate_wes() call
    \*      (the four results dicts it was given, and its locals)
    wpc, weights, given_weights, results, raw_metrics, normalized_metrics, wes,
    \* ---- SpaceSyntaxAnalyzer: position, self.graph, the weighted argument of
    \*      the last analyze() call, and self.metrics
    sspc, ss_graph, ss_weighted, ss_metrics,
    \* ---- one identify_critical_nodes() call: its argument and its result
    top_n, critical,
    \* ---- VisibilityAnalyzer: position, self.obstacles, self.visibility_graph,
    \*      the last call (its name and arguments) and what it returned
    vpc, obstacles, visibility_graph, vga_call, vga_result,
    \* ---- the intersection library: which end of a stretch shared by two
    \*      segments it lists first
    overlap_first

simVars == <<graph, signage_locations, landmarks, rng, call, pc, scenario_idx,
             all_results, result, origin, destination, agents, agent, walk,
             outcomes>>
wesVars == <<wpc, weights, given_weights, results, raw_metrics,
             normalized_metrics, wes>>
ssVars == <<sspc, ss_graph, ss_weighted, ss_metrics, top_n, critical>>
vgaVars == <<vpc, obstacles, visibility_graph, vga_call, vga_result,
             overlap_first>>
vars == <<simVars, wesVars, ssVars, vgaVars>>

None == "None"
\* Python's None where a record is expected
NoValue == [none |-> TRUE]
NoResult == [none |-> TRUE]
NoCall == [none |-> TRUE]
NoGraph == [extra |-> <<>>, edges |-> <<>>]
\* self.metrics = {}
NoMetrics == [none |-> TRUE]

-----------------------------------------------------------------------------
(* Bounds of the model *)

MaxAgents == 2
MaxScenarios == 2
StreamPeriod == 2

-----------------------------------------------------------------------------
(* Exact rational arithmetic *)

Abs(x) == IF x < 0 THEN -x ELSE x

RECURSIVE Gcd(_, _)
Gcd(a, b) == IF b = 0 THEN a ELSE Gcd(b, a % b)

Rat(n, d) ==
    LET g == Gcd(Abs(n), Abs(d))
        s == IF d < 0 THEN -1 ELSE 1
    IN  <<(s * n) \div g, (s * d) \div g>>

RInt(k) == <<k, 1>>
\* sums, products and comparisons cancel common factors first, which keeps
\* the intermediate integers small
RAdd(a, b) ==
    LET g == Gcd(a[2], b[2])
    IN  Rat(a[1] * (b[2] \div g) + b[1] * (a[2] \div g), (a[2] \div g) * b[2])
RSub(a, b) == RAdd(a, <<-b[1], b[2]>>)
RMul(a, b) ==
    LET x == Rat(a[1], b[2])
        y == Rat(b[1], a[2])
    IN  Rat(x[1] * y[1], x[2] * y[2])
RDiv(a, b) ==
    IF b[1] < 0 THEN RMul(a, <<-b[2], -b[1]>>) ELSE RMul(a, <<b[2], b[1]>>)
RLt(a, b) ==
    LET g == Gcd(a[2], b[2])
    IN  a[1] * (b[2] \div g) < b[1] * (a[2] \div g)
RLe(a, b) ==
    LET g == Gcd(a[2], b[2])
    IN  a[1] * (b[2] \div g) <= b[1] * (a[2] \div g)
RGe(a, b) == RLe(b, a)
RGt(a, b) == RLt(b, a)
RMax(a, b) == IF RLt(a, b) THEN b ELSE a
RMin(a, b) == IF RLt(b, a) THEN b ELSE a

RECURSIVE RSum(_)
RSum(s) == IF s = <<>> THEN RInt(0) ELSE RAdd(Head(s), RSum(Tail(s)))

RECURSIVE ISum(_)
ISum(s) == IF s = <<>> THEN 0 ELSE Head(s) + ISum(Tail(s))

\* np.mean of a non-empty sequence of rationals
Mean(s) == RDiv(RSum(s), RInt(Len(s)))

Range(s) == {s[i] : i \in 1..Len(s)}

-----------------------------------------------------------------------------
(* Circulation graphs: networkx.Graph, undirected and weighted.  A graph is *)
(* [extra, edges]: edges is the sequence of add_edge(u, v, weight) calls,   *)
(* extra the nodes added without an edge.                                   *)

GraphA ==
    [extra |-> <<>>,
     edges |-> << <<"entrance", "node_1", 10>>, <<"node_1", "emergency", 8>> >>]

GraphB ==
    [extra |-> <<"lab">>,
     edges |-> << <<"entrance", "node_1", 200>>, <<"node_1", "emergency", 160>>,
                  <<"node_1", "radiology", 100>>, <<"radiology", "emergency", 40>>,
                  <<"node_1", "pharmacy", 80>>, <<"radiology", "pharmacy", 140>> >>]

Graphs == {GraphA, GraphB}

Nodes(g) ==
    Range(g.extra) \cup {g.edges[k][1] : k \in 1..Len(g.edges)}
                   \cup {g.edges[k][2] : k \in 1..Len(g.edges)}

\* list(G.neighbors(n)): the adjacency of n in insertion order
RECURSIVE NeighborsFrom(_, _, _)
NeighborsFrom(g, n, k) ==
    IF k > Len(g.edges) THEN <<>>
    ELSE LET e == g.edges[k]
             rest == NeighborsFrom(g, n, k + 1)
         IN  IF e[1] = n THEN <<e[2]>> \o rest
             ELSE IF e[2] = n THEN <<e[1]>> \o rest
             ELSE rest

Neighbors(g, n) == NeighborsFrom(g, n, 1)

Degree(g, n) == Len(Neighbors(g, n))

HasEdge(g, a, b) == \E k \in 1..Len(g.edges) :
    {g.edges[k][1], g.edges[k][2]} = {a, b}

EdgeWeight(g, a, b) ==
    LET k == CHOOSE j \in 1..Len(g.edges) : {g.edges[j][1], g.edges[j][2]} = {a, b}
    IN  g.edges[k][3]

\* every simple path from the last node of p to t, as extensions of p
RECURSIVE PathsFrom(_, _, _)
PathsFrom(g, p, t) ==
    LET last == p[Len(p)]
        nb == Neighbors(g, last)
    IN  IF last = t THEN {p}
        ELSE UNION {PathsFrom(g, Append(p, nb[k]), t) :
                        k \in {j \in 1..Len(nb) : nb[j] \notin Range(p)}}

RECURSIVE PathWeight(_, _, _)
PathWeight(g, p, k) ==
    IF k >= Len(p) THEN 0
    ELSE EdgeWeight(g, p[k], p[k + 1]) + PathWeight(g, p, k + 1)

HasPath(g, s, t) == PathsFrom(g, <<s>>, t) # {}

\* nx.shortest_path(G, s, t, weight='weight') for s, t in G with a path between
\* them: a path of minimum total weight (the graphs above have one such path
\* for every pair of nodes)
ShortestPath(g, s, t) ==
    LET ps == PathsFrom(g, <<s>>, t)
    IN  CHOOSE p \in ps : \A q \in ps : PathWeight(g, p, 1) <= PathWeight(g, q, 1)

-----------------------------------------------------------------------------
(* numpy's global generator.  A seed fixes the whole stream of uniform      *)
(* values; the stream of seed s repeats the StreamPeriod values that are    *)
(* the digits of s in base Len(DrawValues).                                 *)

ProbDen == 100000

\* the uniform values a draw can return, in units of 1/ProbDen
DrawValues == <<0, 40000, 70000, 85000, 97000>>

RECURSIVE Pow(_, _)
Pow(b, e) == IF e = 0 THEN 1 ELSE b * Pow(b, e - 1)

Seeds == 0..(Pow(Len(DrawValues), StreamPeriod) - 1)

\* the next value of the generator in state r
Uniform(r) ==
    DrawValues[((r.seed \div Pow(Len(DrawValues), r.pos)) % Len(DrawValues)) + 1]

\* the generator after one draw
Advance(r) == [r EXCEPT !.pos = (r.pos + 1) % StreamPeriod]

-----------------------------------------------------------------------------
(* Agents *)

Terminal == {"SUCCEEDED", "FAILED"}

FAMILIAR == "familiar"
FIRST_TIME == "first_time"
ELDERLY == "elderly"
MOBILITY_IMPAIRED == "mobility_impaired"
AgentType == {FAMILIAR, FIRST_TIME, ELDERLY, MOBILITY_IMPAIRED}

\* np.random.choice(types, p=[0.6, 0.2, 0.15, 0.05]) on the uniform value u
ChooseAgentType(u) ==
    IF u < 60000 THEN FIRST_TIME
    ELSE IF u < 80000 THEN FAMILIAR
    ELSE IF u < 95000 THEN ELDERLY
    ELSE MOBILITY_IMPAIRED

\* np.random.choice(neighbors) on the uniform value u
ChooseNeighbor(nb, u) == nb[((u * Len(nb)) \div ProbDen) + 1]

_get_node_position(g, node) == <<0, 0>>

\* Agent(...): the dataclass defaults; path None is the empty sequence
NewAgent(i, type, g, o, d) ==
    [id |-> i, agent_type |-> type,
     current_position |-> _get_node_position(g, o),
     target_position |-> _get_node_position(g, d),
     path |-> <<>>, errors |-> 0, hesitations |-> 0, sign_usages |-> 0,
     time_elapsed |-> RInt(0), distance_traveled |-> 0, success |-> FALSE,
     state |-> "CREATED"]

NoAgent == [id |-> -1, state |-> "NONE"]
NoWalk == [optimal_path |-> <<>>, actual_path |-> <<>>, current |-> None,
           i |-> 0, returned |-> FALSE]

_has_signage_at(sig, node) == node \in sig
_has_landmark_at(lm, node) == node \in lm
\* signage looked for at the node the agent stands on only
_signage_visible_atCurrent(sig, current, next_node) == current \in sig

_signage_visible_at(sig, current, next_node) ==
    current \in sig \/ next_node \in sig

base_prob(type) ==
    CASE type = FAMILIAR -> 5000
      [] type = FIRST_TIME -> 25000
      [] type = ELDERLY -> 35000
      [] type = MOBILITY_IMPAIRED -> 30000
      [] OTHER -> 20000

IMin(a, b) == IF a < b THEN a ELSE b

\* the probability, in units of 1/ProbDen, of a wrong choice at node
_get_error_probability(g, sig, lm, type, node) ==
    LET p0 == base_prob(type)
        degree == Degree(g, node)
        p1 == IF degree >= 4 THEN (p0 * 15) \div 10
              ELSE IF degree >= 3 THEN (p0 * 12) \div 10
              ELSE p0
        p2 == IF _has_signage_at(sig, node) THEN (p1 * 5) \div 10 ELSE p1
        p3 == IF _has_landmark_at(lm, node) THEN (p2 * 6) \div 10 ELSE p2
    IN  IMin(p3, 90000)

\* the length of a path: the weights of its steps that are edges of the graph
RECURSIVE PathLength(_, _, _)
PathLength(g, path, k) ==
    IF k >= Len(path) THEN 0
    ELSE (IF path[k] \in Nodes(g) /\ path[k + 1] \in Nodes(g)
             /\ HasEdge(g, path[k], path[k + 1])
          THEN EdgeWeight(g, path[k], path[k + 1]) ELSE 0)
         + PathLength(g, path, k + 1)

\* the length of a path counted in steps
_calculate_path_lengthHops(g, path) ==
    IF Len(path) < 2 THEN 0 ELSE Len(path) - 1

_calculate_path_length(g, path) ==
    IF Len(path) < 2 THEN 0 ELSE PathLength(g, path, 1)

\* every type walks at the default speed
walking_speed_default(type) == Rat(10, 10)

\* walking speed in m/s
walking_speed(type) ==
    CASE type = FAMILIAR -> Rat(14, 10)
      [] type = FIRST_TIME -> Rat(10, 10)
      [] type = ELDERLY -> Rat(8, 10)
      [] type = MOBILITY_IMPAIRED -> Rat(6, 10)
      [] OTHER -> Rat(10, 10)

_estimate_travel_time(g, a, path) ==
    LET distance == _calculate_path_length(g, path)
        base_time == RDiv(RInt(distance), walking_speed(a.agent_type))
        hesitation_time == a.hesitations * 5
        error_time == a.errors * 10
    IN  RAdd(base_time, RInt(hesitation_time + error_time))

\* nx.shortest_path(G, s, t, weight='weight'): the path, or the exception raised
nx_shortest_path(g, s, t) ==
    IF s \notin Nodes(g) \/ t \notin Nodes(g)
    THEN [raised |-> "NodeNotFound", path |-> <<>>]
    ELSE IF ~HasPath(g, s, t)
    THEN [raised |-> "NetworkXNoPath", path |-> <<>>]
    ELSE [raised |-> None, path |-> ShortestPath(g, s, t)]

\* a handler that catches the missing node only
JourneyHandlerNodeOnly(exc) == exc \in {"NodeNotFound"}

\* line 193, `except Exception`: the exceptions the handler of the journey catches
JourneyHandlerCatches(exc) == exc \in {"NodeNotFound", "NetworkXNoPath"}

\* lines 170-185 and 193-195, 206-207: the start of a journey.  Gives the agent,
\* the locals of _apply_agent_strategy, and the exception that leaves the
\* journey (None when none does).
JourneyStart(g, o, d, a) ==
    IF o \notin Nodes(g) \/ d \notin Nodes(g)
    THEN [agent |-> [a EXCEPT !.success = FALSE, !.state = "FAILED"],
          walk |-> NoWalk, raised |-> None]
    ELSE LET sp == nx_shortest_path(g, o, d)
         IN  IF sp.raised # None
             THEN IF JourneyHandlerCatches(sp.raised)
                  THEN [agent |-> [a EXCEPT !.success = FALSE, !.state = "FAILED"],
                        walk |-> NoWalk, raised |-> None]
                  ELSE [agent |-> a, walk |-> NoWalk, raised |-> sp.raised]
             ELSE [agent |-> [a EXCEPT !.state = "TRAVELING"],
                   walk |-> [optimal_path |-> sp.path,
                             actual_path |-> <<sp.path[1]>>,
                             current |-> sp.path[1],
                             i |-> 2, returned |-> FALSE],
                   raised |-> None]

\* the correction path appended whole, its first node a second time
CorrectedWholePath(g, path1, wrong_choice, dest) ==
    LET cp == nx_shortest_path(g, wrong_choice, dest)
    IN  IF cp.raised = None THEN path1 \o cp.path ELSE path1

\* lines 227-234: the correction path appended to the path walked so far
Corrected(g, path1, wrong_choice, dest) ==
    LET cp == nx_shortest_path(g, wrong_choice, dest)
    IN  IF cp.raised = None THEN path1 \o Tail(cp.path) ELSE path1

\* One iteration of the loop of _apply_agent_strategy, for next_node =
\* optimal_path[w.i], with the generator in state r.  Gives the agent, the
\* locals and the generator after the iteration.
StrategyStep(g, sig, lm, dest, a, w, r) ==
    LET next_node == w.optimal_path[w.i]
        error_prob == _get_error_probability(g, sig, lm, a.agent_type, w.current)
        r1 == Advance(r)
    IN  IF Uniform(r) < error_prob THEN
            LET a1 == [a EXCEPT !.errors = @ + 1]
                neighbors == Neighbors(g, w.current)
            IN  IF neighbors # <<>> THEN
                    LET wrong_choice == ChooseNeighbor(neighbors, Uniform(r1))
                        r2 == Advance(r1)
                        path1 == Append(w.actual_path, wrong_choice)
                    IN  IF wrong_choice # next_node THEN
                            [agent |-> [a1 EXCEPT !.hesitations = @ + 1],
                             walk |-> [w EXCEPT
                                  !.actual_path =
                                      Corrected(g, path1, wrong_choice, dest),
                                  !.current = wrong_choice,
                                  !.returned = TRUE],
                             rng |-> r2]
                        ELSE
                            [agent |-> a1,
                             walk |-> [w EXCEPT !.actual_path = path1,
                                                !.current = wrong_choice,
                                                !.i = @ + 1],
                             rng |-> r2]
                ELSE [agent |-> a1, walk |-> [w EXCEPT !.i = @ + 1], rng |-> r1]
        ELSE
            [agent |-> IF _signage_visible_at(sig, w.current, next_node)
                       THEN [a EXCEPT !.sign_usages = @ + 1] ELSE a,
             walk |-> [w EXCEPT !.actual_path = Append(@, next_node),
                                !.current = next_node,
                                !.i = @ + 1],
             rng |-> r1]

\* the loop of _apply_agent_strategy is over: it returned, or ran out of nodes
WalkOver(w) == w.returned \/ w.i > Len(w.optimal_path)

\* the measures of a finished walk, with success kept for the agents that
\* reached the destination without an error
MeasuredFirstPass(g, a, dest, actual_path) ==
    LET ok == IF actual_path # <<>>
              THEN actual_path[Len(actual_path)] = dest /\ a.errors = 0
              ELSE FALSE
    IN  [a EXCEPT !.path = actual_path,
                  !.distance_traveled = _calculate_path_length(g, actual_path),
                  !.time_elapsed = _estimate_travel_time(g, a, actual_path),
                  !.success = ok,
                  !.state = IF ok THEN "SUCCEEDED" ELSE "FAILED"]

\* lines 188-191: the measures and the outcome of a finished walk
Measured(g, a, dest, actual_path) ==
    LET ok == IF actual_path # <<>> THEN actual_path[Len(actual_path)] = dest
              ELSE FALSE
    IN  [a EXCEPT !.path = actual_path,
                  !.distance_traveled = _calculate_path_length(g, actual_path),
                  !.time_elapsed = _estimate_travel_time(g, a, actual_path),
                  !.success = ok,
                  !.state = IF ok THEN "SUCCEEDED" ELSE "FAILED"]

-----------------------------------------------------------------------------
(* Aggregation *)

Successful(as) == SelectSeq(as, LAMBDA a : a.success)

MapSeq(s, F(_)) == [k \in 1..Len(s) |-> F(s[k])]

\* the mean time taken over all agents
_aggregate_scenario_resultsAllTimes(as) ==
    LET successful == Successful(as)
        n == Len(as)
        first_pass == SelectSeq(as, LAMBDA a : a.success /\ a.errors = 0)
    IN  IF as = <<>> THEN [n_agents |-> 0, empty |-> TRUE]
        ELSE
        [empty |-> FALSE,
         n_agents |-> n,
         success_rate |-> Rat(Len(successful), n),
         first_pass_success |-> Rat(Len(first_pass), n),
         mean_time |-> Mean(MapSeq(as, LAMBDA a : a.time_elapsed)),
         mean_distance |-> IF successful # <<>>
                       THEN Mean(MapSeq(successful, LAMBDA a : RInt(a.distance_traveled)))
                       ELSE RInt(0),
         mean_errors |-> Mean(MapSeq(as, LAMBDA a : RInt(a.errors))),
         mean_hesitations |-> Mean(MapSeq(as, LAMBDA a : RInt(a.hesitations))),
         mean_sign_usage |-> Mean(MapSeq(as, LAMBDA a : RInt(a.sign_usages))),
         hesitation_rate |-> Mean(MapSeq(as, LAMBDA a :
                                 IF a.distance_traveled > 0
                                 THEN Rat(a.hesitations, a.distance_traveled)
                                 ELSE RInt(0)))]

\* _aggregate_scenario_results
_aggregate_scenario_results(as) ==
    LET successful == Successful(as)
        n == Len(as)
        first_pass == SelectSeq(as, LAMBDA a : a.success /\ a.errors = 0)
    IN  IF as = <<>> THEN [n_agents |-> 0, empty |-> TRUE]
        ELSE
        [empty |-> FALSE,
         n_agents |-> n,
         success_rate |-> Rat(Len(successful), n),
         first_pass_success |-> Rat(Len(first_pass), n),
         mean_time |-> IF successful # <<>>
                       THEN Mean(MapSeq(successful, LAMBDA a : a.time_elapsed))
                       ELSE RInt(0),
         mean_distance |-> IF successful # <<>>
                       THEN Mean(MapSeq(successful, LAMBDA a : RInt(a.distance_traveled)))
                       ELSE RInt(0),
         mean_errors |-> Mean(MapSeq(as, LAMBDA a : RInt(a.errors))),
         mean_hesitations |-> Mean(MapSeq(as, LAMBDA a : RInt(a.hesitations))),
         mean_sign_usage |-> Mean(MapSeq(as, LAMBDA a : RInt(a.sign_usages))),
         hesitation_rate |-> Mean(MapSeq(as, LAMBDA a :
                                 IF a.distance_traveled > 0
                                 THEN Rat(a.hesitations, a.distance_traveled)
                                 ELSE RInt(0)))]

\* r.get(key, default) on a scenario result
GetRate(r) == IF r.empty THEN RInt(0) ELSE r.success_rate
GetRate1(r) == IF r.empty THEN RInt(1) ELSE r.success_rate
GetTime(r) == IF r.empty THEN RInt(0) ELSE r.mean_time
GetErrors(r) == IF r.empty THEN RInt(0) ELSE r.mean_errors

\* max(all_results, key=success_rate) and min(...): the first of the extremes
BestIndex(rs) ==
    CHOOSE k \in 1..Len(rs) :
        /\ \A j \in 1..Len(rs) : RLe(GetRate(rs[j]), GetRate(rs[k]))
        /\ \A j \in 1..(k - 1) : RLt(GetRate(rs[j]), GetRate(rs[k]))

WorstIndex(rs) ==
    CHOOSE k \in 1..Len(rs) :
        /\ \A j \in 1..Len(rs) : RGe(GetRate(rs[j]), GetRate(rs[k]))
        /\ \A j \in 1..(k - 1) : RGt(GetRate(rs[j]), GetRate(rs[k]))

_calculate_overall_stats(rs) ==
    [overall_success_rate |-> Mean(MapSeq(rs, GetRate)),
     overall_mean_time |-> Mean(MapSeq(rs, GetTime)),
     overall_mean_errors |-> Mean(MapSeq(rs, GetErrors)),
     best_scenario |-> rs[BestIndex(rs)].scenario,
     worst_scenario |-> rs[WorstIndex(rs)].scenario]

\* the time flag raised above 300 s
_generate_recommendationsTime300(rs) ==
    LET low_success == \E k \in 1..Len(rs) : RLt(GetRate1(rs[k]), Rat(7, 10))
        high_time == \E k \in 1..Len(rs) : RGt(GetTime(rs[k]), RInt(300))
        high_errors == \E k \in 1..Len(rs) : RGt(GetErrors(rs[k]), Rat(15, 10))
        flags == (IF low_success THEN <<"low_success">> ELSE <<>>)
                 \o (IF high_time THEN <<"high_time">> ELSE <<>>)
                 \o (IF high_errors THEN <<"high_errors">> ELSE <<>>)
    IN  IF flags = <<>> THEN <<"no_critical">> ELSE flags

\* _generate_recommendations
_generate_recommendations(rs) ==
    LET low_success == \E k \in 1..Len(rs) : RLt(GetRate1(rs[k]), Rat(7, 10))
        high_time == \E k \in 1..Len(rs) : RGt(GetTime(rs[k]), RInt(180))
        high_errors == \E k \in 1..Len(rs) : RGt(GetErrors(rs[k]), Rat(15, 10))
        flags == (IF low_success THEN <<"low_success">> ELSE <<>>)
                 \o (IF high_time THEN <<"high_time">> ELSE <<>>)
                 \o (IF high_errors THEN <<"high_errors">> ELSE <<>>)
    IN  IF flags = <<>> THEN <<"no_critical">> ELSE flags

-----------------------------------------------------------------------------
(* The inputs of simulate() *)

ScenarioChoices ==
    { [origin |-> "entrance", destination |-> "emergency"],
      [origin |-> "pharmacy", destination |-> "emergency"],
      [origin |-> "entrance", destination |-> "lab"],
      [origin |-> "ghost", destination |-> "emergency"],
      [origin |-> "entrance", destination |-> "ghost"] }

ScenarioLists ==
    UNION {[1..k -> ScenarioChoices] : k \in 1..MaxScenarios}

\* the signage and landmark catalogs: None, or a list of node ids
NoCatalog == [none |-> TRUE, nodes |-> {}]
CatalogChoices == {NoCatalog, [none |-> FALSE, nodes |-> {"node_1", "emergency"}]}

\* `catalog or []`
OrEmpty(c) == IF c.none THEN {} ELSE c.nodes

ScenarioName(sc) == <<sc.origin, sc.destination>>

-----------------------------------------------------------------------------
(* The simulator, step by step *)

InitSim ==
    /\ graph = NoGraph /\ signage_locations = {} /\ landmarks = {}
    /\ rng \in [seed : Seeds, pos : {0}]
    /\ call = NoCall /\ pc = "idle" /\ scenario_idx = 0
    /\ all_results = <<>> /\ result = NoResult
    /\ origin = None /\ destination = None /\ agents = <<>>
    /\ agent = NoAgent /\ walk = NoWalk
    /\ outcomes = <<>>

InitWESIdle ==
    /\ wpc = "none" /\ weights = NoValue /\ given_weights = NoValue
    /\ results = NoValue
    /\ raw_metrics = NoValue /\ normalized_metrics = NoValue /\ wes = NoValue

\* VisibilityAnalyzer.__init__: self.obstacles = [], self.visibility_graph = None
InitVGAIdle ==
    /\ vpc = "new" /\ obstacles = <<>> /\ visibility_graph = NoValue
    /\ vga_call = NoCall /\ vga_result = NoValue
    /\ overlap_first = "near"

\* SpaceSyntaxAnalyzer.__init__: self.graph = None, self.metrics = {}
InitSSIdle ==
    /\ sspc = "new" /\ ss_graph = NoGraph /\ ss_weighted = TRUE
    /\ ss_metrics = NoMetrics
    /\ top_n = 0 /\ critical = NoValue

\* np.random.seed(s), by the caller between two calls of simulate
np_random_seed ==
    /\ pc = "idle"
    /\ \E s \in Seeds : rng' = [seed |-> s, pos |-> 0]
    /\ rng' # rng
    /\ UNCHANGED <<graph, signage_locations, landmarks, call, pc, scenario_idx,
                   all_results, result, origin, destination, agents, agent,
                   walk, outcomes, wesVars, ssVars, vgaVars>>

\* simulate() that leaves the catalogs of the instance as they are when it is
\* passed None
simulateKeepsCatalogs ==
    /\ pc = "idle"
    /\ \E g \in Graphs, scs \in ScenarioLists, n \in 1..MaxAgents,
          sig \in CatalogChoices, lm \in CatalogChoices :
          /\ graph' = g
          /\ signage_locations' = IF sig.none THEN signage_locations ELSE sig.nodes
          /\ landmarks' = IF lm.none THEN landmarks ELSE lm.nodes
          /\ call' = [graph |-> g, scenarios |-> scs, n_agents |-> n,
                      signage_locations |-> sig, landmarks |-> lm,
                      rng |-> rng]
    /\ rng' = rng
    /\ all_results' = <<>>
    /\ outcomes' = <<>>
    /\ result' = NoResult
    /\ scenario_idx' = 1
    /\ pc' = "scenarios"
    /\ origin' = None /\ destination' = None /\ agents' = <<>>
    /\ agent' = NoAgent /\ walk' = NoWalk
    /\ UNCHANGED <<wesVars, ssVars, vgaVars>>

\* simulate(graph, scenarios, n_agents_per_scenario, signage_locations,
\* landmarks): lines 67-74.  call keeps the arguments and the state of the
\* generator on entry.
simulate ==
    /\ pc = "idle"
    /\ \E g \in Graphs, scs \in ScenarioLists, n \in 1..MaxAgents,
          sig \in CatalogChoices, lm \in CatalogChoices :
          /\ graph' = g
          /\ signage_locations' = OrEmpty(sig)
          /\ landmarks' = OrEmpty(lm)
          /\ call' = [graph |-> g, scenarios |-> scs, n_agents |-> n,
                      signage_locations |-> sig, landmarks |-> lm,
                      rng |-> rng]
    /\ rng' = rng
    /\ all_results' = <<>>
    /\ outcomes' = <<>>
    /\ result' = NoResult
    /\ scenario_idx' = 1
    /\ pc' = "scenarios"
    /\ origin' = None /\ destination' = None /\ agents' = <<>>
    /\ agent' = NoAgent /\ walk' = NoWalk
    /\ UNCHANGED <<wesVars, ssVars, vgaVars>>

\* lines 76-88 and 122: the next scenario of the list is started
_run_scenario ==
    /\ pc = "scenarios"
    /\ scenario_idx <= Len(call.scenarios)
    /\ origin' = call.scenarios[scenario_idx].origin
    /\ destination' = call.scenarios[scenario_idx].destination
    /\ agents' = <<>>
    /\ agent' = NoAgent /\ walk' = NoWalk
    /\ pc' = "agents"
    /\ UNCHANGED <<graph, signage_locations, landmarks, rng, call, scenario_idx,
                   all_results, result, outcomes, wesVars, ssVars, vgaVars>>

\* lines 132-145: the type is drawn and the agent created
CreateAgent ==
    /\ pc = "agents"
    /\ Len(agents) < call.n_agents
    /\ agent' = NewAgent(Len(agents), ChooseAgentType(Uniform(rng)), graph,
                         origin, destination)
    /\ rng' = Advance(rng)
    /\ walk' = NoWalk
    /\ pc' = "journey"
    /\ UNCHANGED <<graph, signage_locations, landmarks, call, scenario_idx,
                   all_results, result, origin, destination, agents, outcomes,
                   wesVars, ssVars, vgaVars>>

\* lines 170-185 and 193-195, 206-207: the endpoints are checked and the
\* optimal path computed; a missing endpoint returns, an exception goes to the
\* handler, and one that the handler does not catch leaves the journey
_simulate_agent_journey ==
    /\ pc = "journey"
    /\ agent.state = "CREATED"
    /\ LET j == JourneyStart(graph, origin, destination, agent)
       IN  /\ agent' = j.agent
           /\ walk' = j.walk
           /\ pc' = IF j.raised = None THEN pc ELSE "raised"
    /\ UNCHANGED <<graph, signage_locations, landmarks, rng, call,
                   scenario_idx, all_results, result, origin, destination,
                   agents, outcomes, wesVars, ssVars, vgaVars>>

\* lines 209-242: one iteration of the loop of _apply_agent_strategy
_apply_agent_strategy ==
    /\ pc = "journey"
    /\ agent.state = "TRAVELING"
    /\ ~WalkOver(walk)
    /\ LET s == StrategyStep(graph, signage_locations, landmarks, destination,
                             agent, walk, rng)
       IN  /\ agent' = s.agent
           /\ walk' = s.walk
           /\ rng' = s.rng
    /\ UNCHANGED <<graph, signage_locations, landmarks, call, pc, scenario_idx,
                   all_results, result, origin, destination, agents, outcomes,
                   wesVars, ssVars, vgaVars>>

\* lines 188-191: the walk is over, the measures and the outcome are set
FinishJourney ==
    /\ pc = "journey"
    /\ agent.state = "TRAVELING"
    /\ WalkOver(walk)
    /\ agent' = Measured(graph, agent, destination, walk.actual_path)
    /\ UNCHANGED <<graph, signage_locations, landmarks, rng, call, pc,
                   scenario_idx, all_results, result, origin, destination,
                   agents, walk, outcomes, wesVars, ssVars, vgaVars>>

\* AppendAgent with a failed agent sent on its journey again
AppendAgentRetry ==
    /\ pc = "journey"
    /\ agent.state \in {"SUCCEEDED", "FAILED"}
    /\ IF agent.state = "FAILED" /\ agent.path = <<>> /\ agent.errors = 0
       THEN /\ agent' = [agent EXCEPT !.state = "CREATED", !.errors = 1]
            /\ UNCHANGED <<agents, pc>>
       ELSE /\ agents' = Append(agents, agent)
            /\ pc' = "agents"
            /\ agent' = agent
    /\ UNCHANGED <<graph, signage_locations, landmarks, rng, call,
                   scenario_idx, all_results, result, origin, destination,
                   walk, outcomes, wesVars, ssVars, vgaVars>>

\* line 150: agents.append(agent)
AppendAgent ==
    /\ pc = "journey"
    /\ agent.state \in {"SUCCEEDED", "FAILED"}
    /\ agents' = Append(agents, agent)
    /\ pc' = "agents"
    /\ UNCHANGED <<graph, signage_locations, landmarks, rng, call,
                   scenario_idx, all_results, result, origin, destination,
                   agent, walk, outcomes, wesVars, ssVars, vgaVars>>

\* lines 153 and 90-95: the scenario is aggregated and its result appended
AggregateScenario ==
    /\ pc = "agents"
    /\ Len(agents) = call.n_agents
    /\ all_results' = Append(all_results,
           [scenario |-> ScenarioName(call.scenarios[scenario_idx]),
            origin |-> origin, destination |-> destination]
           @@ _aggregate_scenario_results(agents))
    /\ outcomes' = Append(outcomes, agents)
    /\ scenario_idx' = scenario_idx + 1
    /\ pc' = "scenarios"
    /\ UNCHANGED <<graph, signage_locations, landmarks, rng, call, result,
                   origin, destination, agents, agent, walk, wesVars, ssVars, vgaVars>>

\* lines 98-107: the rollup over the scenarios, and the return
SimulateReturn ==
    /\ pc = "scenarios"
    /\ scenario_idx > Len(call.scenarios)
    /\ result' = [scenarios |-> all_results,
                  overall |-> _calculate_overall_stats(all_results),
                  recommendations |-> _generate_recommendations(all_results)]
    /\ pc' = "returned"
    /\ UNCHANGED <<graph, signage_locations, landmarks, rng, call,
                   scenario_idx, all_results, origin, destination, agents,
                   agent, walk, outcomes, wesVars, ssVars, vgaVars>>

\* the caller has the result; the locals of the call are gone, the fields of
\* the instance and the state of the generator stay
Return ==
    /\ pc \in {"returned", "raised"}
    /\ pc' = "idle"
    /\ call' = NoCall /\ scenario_idx' = 0
    /\ all_results' = <<>> /\ result' = NoResult
    /\ origin' = None /\ destination' = None /\ agents' = <<>>
    /\ agent' = NoAgent /\ walk' = NoWalk
    /\ outcomes' = <<>>
    /\ UNCHANGED <<graph, signage_locations, landmarks, rng, wesVars, ssVars, vgaVars>>

Init == InitSim /\ InitWESIdle /\ InitSSIdle /\ InitVGAIdle

Next ==
    \/ np_random_seed
    \/ simulate
    \/ _run_scenario
    \/ CreateAgent
    \/ _simulate_agent_journey
    \/ _apply_agent_strategy
    \/ FinishJourney
    \/ AppendAgent
    \/ AggregateScenario
    \/ SimulateReturn
    \/ Return

Spec == Init /\ [][Next]_vars

-----------------------------------------------------------------------------
(* Claims about the simulator *)

Traveling == agent.state \in {"CREATED", "TRAVELING"}
Finished == agent.state \in Terminal

\* the measure of what is left of a journey: 0 once it is over
Remaining ==
    CASE agent.state = "CREATED" -> 1000
      [] agent.state = "TRAVELING" ->
            IF WalkOver(walk) THEN 1 ELSE 2 + Len(walk.optimal_path) - walk.i
      [] OTHER -> 0

LifecycleStep ==
    \* the states follow CREATED -> TRAVELING -> {SUCCEEDED | FAILED}
    /\ agent'.state # agent.state =>
          \/ agent.state = "CREATED" /\ agent'.state \in {"TRAVELING", "FAILED"}
          \/ agent.state = "TRAVELING" /\ agent'.state \in Terminal
          \/ agent.state \in Terminal \cup {"NONE"} /\ agent'.state \in {"CREATED", "NONE"}
    \* every step of a journey brings its end nearer
    /\ (Traveling /\ agent' # agent) => Remaining' < Remaining
    /\ (agent.state = "TRAVELING" /\ walk' # walk) => agent'.state = "TRAVELING"
    \* success is true exactly in SUCCEEDED, and set by the terminal step only
    /\ agent'.state \in Terminal => (agent'.success <=> agent'.state = "SUCCEEDED")
    /\ agent'.state \in {"CREATED", "TRAVELING"} => ~agent'.success
    \* once the outcome is set, the agent is left alone
    /\ (Finished /\ agent'.state \in Terminal) => agent' = agent
    /\ (Finished /\ agent'.state = "CREATED") =>
          /\ agent'.id = Len(agents') /\ agent \in Range(agents')
    /\ \A k \in 1..Len(agents) :
          agents' # <<>> => (Len(agents') >= k /\ agents'[k] = agents[k])
    /\ \A k \in 1..Len(agents') : agents'[k].id = k - 1

\* the guards of the steps of a journey (_simulate_agent_journey,
\* _apply_agent_strategy, FinishJourney): one of them is enabled
JourneyStepEnabled ==
    /\ pc = "journey"
    /\ \/ agent.state = "CREATED"
       \/ agent.state = "TRAVELING" /\ ~WalkOver(walk)
          /\ walk.i \in 2..Len(walk.optimal_path)
          /\ walk.current \in Nodes(graph)
       \/ agent.state = "TRAVELING" /\ WalkOver(walk)

\* C1: every agent follows CREATED -> TRAVELING -> {SUCCEEDED | FAILED}: an
\* agent whose outcome is not set can always take a step of its journey, each
\* step brings the end nearer (so the journey terminates), success is true in
\* SUCCEEDED only, and once the outcome is set the agent's record (path,
\* counters, measures) never changes and the agent is not walked again.
AgentLifecycle ==
    /\ [](Traveling => JourneyStepEnabled)
    /\ [][LifecycleStep]_vars

\* C1 witness: a journey that walked, deviated and ended
AgentLifecycleWitness ==
    /\ pc = "agents" /\ Len(agents) = 2
    /\ agents[1].state = "SUCCEEDED" /\ agents[1].errors > 0
    /\ agents[2].state = "SUCCEEDED"

\* a scenario that cannot succeed: an endpoint is no node, or no path joins them
Unreachable(g, sc) ==
    \/ sc.origin \notin Nodes(g)
    \/ sc.destination \notin Nodes(g)
    \/ ~HasPath(g, sc.origin, sc.destination)

\* C2: in a scenario whose origin or destination is no node of the graph, or
\* whose endpoints no path joins, every agent ends FAILED, no exception leaves
\* the call, the aggregate of the scenario is produced over all N agents
\* (n_agents = N, success_rate = 0), and the call returns a result for every
\* scenario of the list, each made from N agents.
FailedScenarioHandled ==
    /\ pc # "raised"
    /\ (pc \in {"agents", "journey"}
        /\ Unreachable(graph, call.scenarios[scenario_idx])) =>
          /\ \A k \in 1..Len(agents) :
                ~agents[k].success /\ agents[k].state = "FAILED"
          /\ agent.state \in {"NONE", "CREATED", "FAILED"}
    /\ pc \in {"scenarios", "agents", "journey", "returned"} =>
          \A k \in 1..Len(all_results) :
             /\ all_results[k].origin = call.scenarios[k].origin
             /\ all_results[k].destination = call.scenarios[k].destination
             /\ all_results[k].n_agents = call.n_agents
             /\ Len(outcomes[k]) = call.n_agents
             /\ Unreachable(graph, call.scenarios[k]) =>
                   /\ all_results[k].success_rate = RInt(0)
                   /\ \A j \in 1..Len(outcomes[k]) : ~outcomes[k][j].success
    /\ pc = "returned" =>
          /\ Len(all_results) = Len(call.scenarios)
          /\ Len(result.scenarios) = Len(call.scenarios)

\* C2 witness: a call returned whose first scenario could not succeed (no path
\* to the destination) and whose second scenario was simulated and succeeded
FailedScenarioWitness ==
    /\ pc = "returned"
    /\ Len(call.scenarios) = 2 /\ call.n_agents = 2
    /\ call.scenarios[1].destination = "lab" /\ "lab" \in Nodes(graph)
    /\ all_results[1].success_rate = RInt(0)
    /\ ~Unreachable(graph, call.scenarios[2])
    /\ all_results[2].success_rate = RInt(1)

\* a step of the walk of the current agent: one iteration of the loop
WalkStep == agent.state = "TRAVELING" /\ agent'.state = "TRAVELING" /\ walk' # walk

\* C3: in a walk, a deviation adds one to errors and moves the agent to a
\* neighbor of its node; if the neighbor is not the intended next node,
\* hesitations grows by one, the shortest path from the neighbor to the
\* destination is appended once and the walk is over with no further draw or
\* change of a counter; if it is the intended node the walk goes on.  A step
\* without deviation changes neither counter.  So hesitations <= 1 and
\* hesitations <= errors.
DeviationHandled ==
    [][/\ WalkStep =>
          LET n == Len(walk.actual_path)
              next_node == walk.optimal_path[walk.i]
              moved == walk'.actual_path[n + 1]
          IN  /\ ~walk.returned
              /\ agent'.errors \in {agent.errors, agent.errors + 1}
              /\ agent'.errors = agent.errors =>
                    /\ agent'.hesitations = agent.hesitations
                    /\ walk'.actual_path = Append(walk.actual_path, next_node)
                    /\ ~walk'.returned
              /\ agent'.errors = agent.errors + 1 =>
                    /\ Len(walk'.actual_path) > n
                    /\ SubSeq(walk'.actual_path, 1, n) = walk.actual_path
                    /\ moved \in Range(Neighbors(graph, walk.current))
                    /\ agent'.sign_usages = agent.sign_usages
                    /\ IF moved # next_node
                       THEN /\ agent'.hesitations = agent.hesitations + 1
                            /\ walk'.actual_path = walk.actual_path
                                  \o ShortestPath(graph, moved, destination)
                            /\ walk'.returned
                       ELSE /\ agent'.hesitations = agent.hesitations
                            /\ walk'.actual_path = Append(walk.actual_path, moved)
                            /\ ~walk'.returned
                            /\ walk'.i = walk.i + 1
       \* after the correction: no draw, no change of a counter
       /\ (agent.state = "TRAVELING" /\ walk.returned /\ agent'.state # "CREATED") =>
             /\ rng' = rng
             /\ agent'.errors = agent.errors
             /\ agent'.hesitations = agent.hesitations
             /\ agent'.sign_usages = agent.sign_usages
             /\ agent'.state \in Terminal => agent'.path = walk.actual_path
       /\ agent'.state \in {"TRAVELING"} \cup Terminal =>
             /\ agent'.hesitations <= 1
             /\ agent'.hesitations <= agent'.errors
      ]_vars

\* C3 witness: an agent that deviated twice, first onto the intended node,
\* then off the optimal path, and was corrected
DeviationWitness ==
    /\ agent.state = "SUCCEEDED"
    /\ agent.errors = 2 /\ agent.hesitations = 1
    /\ Len(agent.path) > Len(walk.optimal_path)

\* The outcome of simulate() as a function of its arguments and of the state
\* of the generator on entry alone: the journeys are replayed on the graph and
\* the catalogs that were passed, from that state of the generator.
RECURSIVE ReplayWalk(_, _, _, _, _, _, _)
ReplayWalk(g, sig, lm, dest, a, w, r) ==
    IF WalkOver(w) THEN [agent |-> Measured(g, a, dest, w.actual_path), rng |-> r]
    ELSE LET s == StrategyStep(g, sig, lm, dest, a, w, r)
         IN  ReplayWalk(g, sig, lm, dest, s.agent, s.walk, s.rng)

ReplayAgent(g, sig, lm, o, d, i, r) ==
    LET a == NewAgent(i, ChooseAgentType(Uniform(r)), g, o, d)
        j == JourneyStart(g, o, d, a)
    IN  IF j.agent.state = "TRAVELING"
        THEN ReplayWalk(g, sig, lm, d, j.agent, j.walk, Advance(r))
        ELSE [agent |-> j.agent, rng |-> Advance(r)]

RECURSIVE ReplayScenario(_, _, _, _, _, _, _, _)
ReplayScenario(g, sig, lm, o, d, n, as, r) ==
    IF Len(as) = n THEN [agents |-> as, rng |-> r]
    ELSE LET x == ReplayAgent(g, sig, lm, o, d, Len(as), r)
         IN  ReplayScenario(g, sig, lm, o, d, n, Append(as, x.agent), x.rng)

RECURSIVE ReplayScenarios(_, _, _, _)
ReplayScenarios(c, k, out, r) ==
    IF k > Len(c.scenarios) THEN out
    ELSE LET x == ReplayScenario(c.graph, OrEmpty(c.signage_locations),
                                 OrEmpty(c.landmarks), c.scenarios[k].origin,
                                 c.scenarios[k].destination, c.n_agents, <<>>, r)
         IN  ReplayScenarios(c, k + 1, Append(out, x.agents), x.rng)

Replay(c) == ReplayScenarios(c, 1, <<>>, c.rng)

\* C4: a fixed seed gives reproducible runs.  The per-agent outcomes of a call
\* of simulate (type, path, errors, hesitations, sign usages, distance, time,
\* success of every agent of every scenario) are a function of the graph, the
\* scenario list, the agent count, the catalogs and the state of the generator
\* on entry: they are the outcomes of the replay of those arguments from that
\* state, whatever calls the instance served before.  Two runs with the same
\* arguments and the same seed therefore have identical outcomes.
ReproducibleRuns ==
    pc = "returned" => outcomes = Replay(call)

\* C4 witness: a call without catalogs has returned that was entered with a
\* generator left by an earlier call (values were drawn since it was seeded),
\* and one of its agents deviated
ReproducibleWitness ==
    /\ pc = "returned"
    /\ call.signage_locations.none /\ call.landmarks.none
    /\ call.graph = GraphB
    /\ call.rng.pos # 0
    /\ Len(outcomes) = 2
    /\ outcomes[1][1].errors > 0 /\ outcomes[2][1].success

\* C5: on the graph entrance -10- node_1 -8- emergency, a habitual (FAMILIAR)
\* agent from entrance to emergency, with no signage and no landmarks, whose
\* draws trigger no deviation, ends with path = [entrance, node_1, emergency],
\* distance 18, errors 0, hesitations 0, time 18/1.4 s and success.
HabitualAgentScenario ==
    (/\ pc = "journey" /\ agent.state \in Terminal
     /\ graph = GraphA
     /\ origin = "entrance" /\ destination = "emergency"
     /\ signage_locations = {} /\ landmarks = {}
     /\ agent.agent_type = FAMILIAR
     /\ agent.errors = 0) =>
        /\ agent.path = <<"entrance", "node_1", "emergency">>
        /\ agent.distance_traveled = 18
        /\ agent.hesitations = 0
        /\ agent.time_elapsed = Rat(180, 14)
        /\ agent.success /\ agent.state = "SUCCEEDED"

\* C5 witness: that agent has finished its journey
HabitualAgentWitness ==
    /\ pc = "journey" /\ agent.state \in Terminal
    /\ graph = GraphA
    /\ origin = "entrance" /\ destination = "emergency"
    /\ signage_locations = {} /\ landmarks = {}
    /\ agent.agent_type = FAMILIAR
    /\ agent.errors = 0
    /\ call.n_agents = 1

-----------------------------------------------------------------------------
(* SpaceSyntaxAnalyzer (space_syntax.py).  Per-node measures are functions  *)
(* over the nodes of the graph, their values exact fractions; <<1, 0>> is   *)
(* float('inf').                                                             *)

Infinity == <<1, 0>>

\* list(G.nodes()): the endpoints of the edges as they were first named,
\* then the nodes added without an edge
RECURSIVE AddNew(_, _)
AddNew(seq, more) ==
    IF more = <<>> THEN seq
    ELSE IF Head(more) \in Range(seq) THEN AddNew(seq, Tail(more))
    ELSE AddNew(Append(seq, Head(more)), Tail(more))

RECURSIVE Endpoints(_, _)
Endpoints(g, k) ==
    IF k > Len(g.edges) THEN <<>>
    ELSE <<g.edges[k][1], g.edges[k][2]>> \o Endpoints(g, k + 1)

NodeList(g) == AddNew(AddNew(<<>>, Endpoints(g, 1)), g.extra)

\* the length of a path: its total weight, or its number of edges
PathCost(g, p, weighted) == IF weighted THEN PathWeight(g, p, 1) ELSE Len(p) - 1

\* the nodes reached from s, s included
Reached(g, s) == {t \in Nodes(g) : HasPath(g, s, t)}

\* nx.single_source_dijkstra_path_length / single_source_shortest_path_length:
\* the length of a shortest path to every node reached, 0 for the source
Distance(g, s, t, weighted) ==
    LET costs == {PathCost(g, p, weighted) : p \in PathsFrom(g, <<s>>, t)}
    IN  CHOOSE c \in costs : \A d \in costs : c <= d

PathLengths(g, s, weighted) == [t \in Reached(g, s) |-> Distance(g, s, t, weighted)]

\* the shortest paths from s to t
ShortestPaths(g, s, t, weighted) ==
    LET paths == PathsFrom(g, <<s>>, t)
        costs == {PathCost(g, p, weighted) : p \in paths}
        least == CHOOSE c \in costs : \A d \in costs : c <= d
    IN  {p \in paths : PathCost(g, p, weighted) = least}

\* _calculate_degree
_calculate_degree(g) == [node \in Nodes(g) |-> Degree(g, node)]

\* nx.closeness_centrality (wf_improved): (r - 1) / total distance, scaled by
\* (r - 1) / (n - 1), with r the number of nodes reached; 0 without distance
_calculate_closeness(g, weighted) ==
    [node \in Nodes(g) |->
        LET sp == PathLengths(g, node, weighted)
            reached == SelectSeq(NodeList(g), LAMBDA t : t \in DOMAIN sp)
            totsp == ISum([i \in 1..Len(reached) |-> sp[reached[i]]])
            n == Cardinality(Nodes(g))
            r == Len(reached)
        IN  IF totsp > 0 /\ n > 1
            THEN RMul(Rat(r - 1, totsp), Rat(r - 1, n - 1))
            ELSE RInt(0)]

\* the share of the shortest s-t paths that pass through v
Through(g, s, t, v, weighted) ==
    IF s = t \/ s = v \/ t = v \/ ~HasPath(g, s, t) THEN RInt(0)
    ELSE LET sps == ShortestPaths(g, s, t, weighted)
         IN  Rat(Cardinality({p \in sps : v \in Range(p)}), Cardinality(sps))

\* nx.betweenness_centrality (normalized, undirected): the shares summed over
\* the ordered pairs and divided by (n - 1)(n - 2)
_calculate_betweenness(g, weighted) ==
    [v \in Nodes(g) |->
        LET nl == NodeList(g)
            n == Len(nl)
            total == RSum([i \in 1..n |->
                        RSum([j \in 1..n |-> Through(g, nl[i], nl[j], v, weighted)])])
        IN  IF n <= 2 THEN total ELSE RDiv(total, RInt((n - 1) * (n - 2)))]

\* the largest analyzed graph has at most MaxNodes nodes; _get_dk_value is
\* modelled up to 10 nodes, where it is a fraction
MaxNodes == 6

\* _get_dk_value, for k <= 10
_get_dk_value(k) == IF k < 3 THEN RInt(1) ELSE Rat(k, 3)

\* integ = 1 / rra if rra > 0 else 0, as if the test were not there: the
\* reciprocal of a positive rra, infinite at 0, negative below
IntegrationValueUnguarded(rra) ==
    IF rra[1] = 0 THEN Infinity ELSE RDiv(RInt(1), rra)

\* integ = 1 / rra if rra > 0 else 0
IntegrationValue(rra) ==
    IF RGt(rra, RInt(0)) THEN RDiv(RInt(1), rra) ELSE RInt(0)

\* the depths of _calculate_integration: list(lengths.values()), one entry
\* for every node reached, the node itself (at length 0) among them
Depths(g, node, weighted) ==
    LET lengths == PathLengths(g, node, weighted)
        reached == SelectSeq(NodeList(g), LAMBDA t : t \in DOMAIN lengths)
    IN  [i \in 1..Len(reached) |-> RInt(lengths[reached[i]])]

\* _calculate_integration
_calculate_integration(g, weighted) ==
    LET k == Cardinality(Nodes(g))
        d_k == _get_dk_value(k)
    IN  [node \in Nodes(g) |->
            LET depths == Depths(g, node, weighted)
                md == Mean(depths)
                ra == RDiv(RMul(RInt(2), RSub(md, RInt(1))), RInt(k - 2))
                rra == IF RGt(d_k, RInt(0)) THEN RDiv(ra, d_k) ELSE ra
            IN  IF Len(depths) > 1
                THEN IF k > 2
                     THEN [value |-> IntegrationValue(rra), ra |-> ra,
                           rra |-> rra, mean_depth |-> md]
                     ELSE [value |-> RInt(0), ra |-> RInt(0),
                           rra |-> RInt(0), mean_depth |-> md]
                ELSE [value |-> RInt(0), ra |-> RInt(0),
                      rra |-> RInt(0), mean_depth |-> RInt(0)]]

\* _calculate_choice
_calculate_choice(g, weighted) == _calculate_betweenness(g, weighted)

\* nx.eccentricity(G, node): the largest number of steps to another node;
\* it raises on a graph that is not connected
Eccentricity(g, node) ==
    LET lengths == PathLengths(g, node, FALSE)
    IN  CHOOSE e \in {lengths[t] : t \in DOMAIN lengths} :
            \A t \in DOMAIN lengths : lengths[t] <= e

\* the eccentricity within the part of the graph the node reaches, as if
\* nx.eccentricity did not raise on a graph that is not connected
_calculate_connectivityWithin(g) ==
    [node \in Nodes(g) |-> RInt(Eccentricity(g, node))]

\* _calculate_connectivity: the bare except turns the NetworkXError of
\* nx.eccentricity on a graph that is not connected into float('inf')
_calculate_connectivity(g) ==
    [node \in Nodes(g) |->
        IF Reached(g, node) = Nodes(g)
        THEN RInt(Eccentricity(g, node)) ELSE Infinity]

\* _identify_entrances
_identify_entrances(g) ==
    LET low == SelectSeq(NodeList(g), LAMBDA node : Degree(g, node) <= 2)
        entrances == IF low = <<>> /\ Len(NodeList(g)) > 0
                     THEN <<NodeList(g)[1]>> ELSE low
    IN  SubSeq(entrances, 1, IF Len(entrances) < 5 THEN Len(entrances) ELSE 5)

\* one round of the loop of _calculate_depth: the steps from the entrance are
\* recorded under "from", then "average" is set, for every node recorded so
\* far, to the mean of all the node's values, the former average among them
DepthRound(g, depth, entrance) ==
    LET lengths == PathLengths(g, entrance, FALSE)
    IN  [node \in DOMAIN depth \cup DOMAIN lengths |->
            LET before == IF node \in DOMAIN depth THEN depth[node].from ELSE <<>>
                from == IF node \in DOMAIN lengths
                        THEN Append(before, <<entrance, lengths[node]>>)
                        ELSE before
                steps == [i \in 1..Len(from) |-> RInt(from[i][2])]
                values == IF node \in DOMAIN depth
                          THEN Append(steps, depth[node].average) ELSE steps
            IN  [from |-> from, average |-> Mean(values)]]

RECURSIVE DepthRounds(_, _, _)
DepthRounds(g, depth, entrances) ==
    IF entrances = <<>> THEN depth
    ELSE DepthRounds(g, DepthRound(g, depth, Head(entrances)), Tail(entrances))

\* _calculate_depth
_calculate_depth(g) ==
    DepthRounds(g, [node \in {} |-> <<>>], _identify_entrances(g))

\* _calculate_control (a neighbour has a degree of at least 1)
_calculate_control(g) ==
    [node \in Nodes(g) |->
        LET neighbors == Neighbors(g, node)
        IN  RSum([i \in 1..Len(neighbors) |-> Rat(1, Degree(g, neighbors[i]))])]

\* _calculate_controllability
_calculate_controllability(g) ==
    [node \in Nodes(g) |->
        LET neighbors == Neighbors(g, node)
            n == Len(neighbors)
        IN  IF n > 0
            THEN RDiv(RSum([i \in 1..n |-> Rat(1, Degree(g, neighbors[i]))]), RInt(n))
            ELSE RInt(0)]

\* the values in ascending order
RECURSIVE InsertAscending(_, _)
InsertAscending(x, sorted) ==
    IF sorted = <<>> THEN <<x>>
    ELSE IF RLe(x, Head(sorted)) THEN <<x>> \o sorted
    ELSE <<Head(sorted)>> \o InsertAscending(x, Tail(sorted))

RECURSIVE Ascending(_)
Ascending(values) ==
    IF values = <<>> THEN <<>>
    ELSE InsertAscending(Head(values), Ascending(Tail(values)))

\* np.median
Median(values) ==
    LET sorted == Ascending(values)
        n == Len(sorted)
    IN  IF n % 2 = 1 THEN sorted[(n + 1) \div 2]
        ELSE Mean(<<sorted[n \div 2], sorted[n \div 2 + 1]>>)

\* np.min, np.max
Smallest(values) == Ascending(values)[1]
Largest(values) == Ascending(values)[Len(values)]

\* the square of np.std: the mean squared distance from the mean
Variance(values) ==
    LET mean == Mean(values)
    IN  Mean([i \in 1..Len(values) |->
                RMul(RSub(values[i], mean), RSub(values[i], mean))])

\* list(metric.values()): the values of a per-node measure in node order
ValuesOf(g, metric) == [i \in 1..Len(NodeList(g)) |-> metric[NodeList(g)[i]]]

\* the statistics _generate_summary reports of one measure; "std" holds the
\* square of the standard deviation
Statistics(name, values) ==
    IF name = "integration"
    THEN [mean |-> Mean(values), std |-> Variance(values),
          min |-> Smallest(values), max |-> Largest(values)]
    ELSE [mean |-> Mean(values), std |-> Variance(values),
          min |-> Smallest(values), max |-> Largest(values),
          median |-> Median(values)]

SummaryNames == {"degree", "closeness", "betweenness", "integration"}

\* _generate_summary, reading self.metrics (the metrics of graph g): an entry
\* for each of the four measures that self.metrics holds
_generate_summary(g, metrics) ==
    [name \in SummaryNames \cap DOMAIN metrics |->
        Statistics(name,
            IF name = "degree" THEN MapSeq(ValuesOf(g, metrics.degree), RInt)
            ELSE IF name = "closeness" THEN ValuesOf(g, metrics.closeness)
            ELSE IF name = "betweenness" THEN ValuesOf(g, metrics.betweenness)
            ELSE MapSeq(ValuesOf(g, metrics.integration), LAMBDA v : v.value))]

\* the per-node measures analyze computes of the graph
NodeMetrics(g, weighted) ==
    [degree |-> _calculate_degree(g),
     closeness |-> _calculate_closeness(g, weighted),
     betweenness |-> _calculate_betweenness(g, weighted),
     integration |-> _calculate_integration(g, weighted),
     choice |-> _calculate_choice(g, weighted),
     connectivity |-> _calculate_connectivity(g),
     depth |-> _calculate_depth(g),
     control |-> _calculate_control(g),
     controllability |-> _calculate_controllability(g)]

\* The graphs handed to analyze; their edges have lengths of 1 or more
\* a hub with three rooms
StarGraph ==
    [extra |-> <<>>,
     edges |-> << <<"hub", "a", 1>>, <<"hub", "b", 1>>, <<"hub", "c", 1>> >>]

\* four rooms around a court, two shortest ways between opposite rooms
RingGraph ==
    [extra |-> <<>>,
     edges |-> << <<"a", "b", 2>>, <<"b", "c", 2>>, <<"c", "d", 2>>,
                  <<"d", "a", 2>> >>]

\* four rooms, each joined to every other: no node of degree <= 2
CompleteGraph ==
    [extra |-> <<>>,
     edges |-> << <<"a", "b", 3>>, <<"a", "c", 3>>, <<"a", "d", 3>>,
                  <<"b", "c", 3>>, <<"b", "d", 3>>, <<"c", "d", 3>> >>]

\* a corridor of six nodes, all of degree <= 2
CorridorGraph ==
    [extra |-> <<>>,
     edges |-> << <<"a", "b", 1>>, <<"b", "c", 1>>, <<"c", "d", 1>>,
                  <<"d", "e", 1>>, <<"e", "f", 1>> >>]

\* a corridor with a wing: five nodes, edges of different lengths
WingGraph ==
    [extra |-> <<>>,
     edges |-> << <<"a", "b", 1>>, <<"b", "c", 1>>, <<"b", "d", 2>>,
                  <<"d", "e", 1>> >>]

\* three nodes in a row
PathGraph ==
    [extra |-> <<>>, edges |-> << <<"a", "b", 1>>, <<"b", "c", 2>> >>]

\* a graph that is not connected: three nodes in a row and an annex apart
AnnexGraph ==
    [extra |-> <<"annex">>, edges |-> << <<"a", "b", 1>>, <<"b", "c", 1>> >>]

\* a graph that is not connected and whose only node of degree <= 2 is the
\* annex: four rooms, each joined to every other, and an annex apart
CourtGraph ==
    [extra |-> <<"annex">>, edges |-> CompleteGraph.edges]

SSGraphs ==
    {g \in {PathGraph, AnnexGraph, StarGraph, RingGraph, CompleteGraph,
            CorridorGraph, WingGraph, CourtGraph} :
        Cardinality(Nodes(g)) <= MaxNodes}

\* the measures of every graph, computed once
MeasuresOf ==
    [g \in SSGraphs |-> [weighted \in BOOLEAN |-> NodeMetrics(g, weighted)]]

\* the dict analyze assigns to self.metrics and returns: the measures of the
\* graph and the summary, which _generate_summary draws from self.metrics as
\* it stands while the dict is being built (old_graph is the graph those
\* earlier metrics were computed of)
AnalyzeResult(g, weighted, old_graph, old_metrics) ==
    LET m == MeasuresOf[g][weighted]
    IN  [degree |-> m.degree, closeness |-> m.closeness,
         betweenness |-> m.betweenness, integration |-> m.integration,
         choice |-> m.choice, connectivity |-> m.connectivity,
         depth |-> m.depth, control |-> m.control,
         controllability |-> m.controllability,
         summary |-> _generate_summary(old_graph, old_metrics)]

\* sorted(items, key=lambda x: x[1], reverse=True): the (node, value) pairs
\* by falling value, pairs of equal value in the order of the dict
RECURSIVE InsertDescending(_, _)
InsertDescending(pair, sorted) ==
    IF sorted = <<>> THEN <<pair>>
    ELSE IF RGt(pair[2], Head(sorted)[2]) THEN <<pair>> \o sorted
    ELSE <<Head(sorted)>> \o InsertDescending(pair, Tail(sorted))

RECURSIVE SortedDescending(_)
SortedDescending(items) ==
    IF items = <<>> THEN <<>>
    ELSE InsertDescending(items[Len(items)],
                          SortedDescending(SubSeq(items, 1, Len(items) - 1)))

\* metric.items(): the (node, value) pairs in node order
Items(g, metric) ==
    LET nodes == SelectSeq(NodeList(g), LAMBDA node : node \in DOMAIN metric)
    IN  [i \in 1..Len(nodes) |-> <<nodes[i], metric[nodes[i]]>>]

\* items[:n]
FirstN(items, n) == SubSeq(items, 1, IF Len(items) < n THEN Len(items) ELSE n)

\* the largest top_n passed to identify_critical_nodes
MaxTopN == 2

\* sorted(self.metrics["integration"].items(), key=lambda x: x["value"]): the
\* key indexes the (node, data) tuple with a string, a TypeError as soon as
\* there is an item to take the key of
IntegrationSortRaises(metrics) ==
    "integration" \in DOMAIN metrics /\ DOMAIN metrics.integration # {}

\* the rankings identify_critical_nodes makes: one for each of the three
\* measures that self.metrics holds
CriticalNames(metrics) ==
    {name \in {"high_betweenness", "high_integration", "high_degree"} :
        \/ name = "high_betweenness" /\ "betweenness" \in DOMAIN metrics
        \/ name = "high_integration" /\ "integration" \in DOMAIN metrics
        \/ name = "high_degree" /\ "degree" \in DOMAIN metrics}

\* identify_critical_nodes(top_n) on the metrics of graph g: the dict
\* `critical`, or the exception out of the integration ranking
CriticalNodes(g, metrics, n) ==
    IF IntegrationSortRaises(metrics)
    THEN [raised |-> "TypeError", critical |-> <<>>]
    ELSE [raised |-> None,
          critical |->
            [name \in CriticalNames(metrics) |->
                IF name = "high_betweenness"
                THEN FirstN(SortedDescending(Items(g, metrics.betweenness)), n)
                ELSE IF name = "high_degree"
                THEN FirstN(SortedDescending(
                        MapSeq(Items(g, metrics.degree),
                               LAMBDA x : <<x[1], RInt(x[2])>>)), n)
                ELSE <<>>]]

\* SpaceSyntaxAnalyzer(): a new instance takes the place of the used one
SpaceSyntaxAnalyzer ==
    /\ sspc = "analyzed"
    /\ sspc' = "new" /\ ss_graph' = NoGraph /\ ss_weighted' = TRUE
    /\ ss_metrics' = NoMetrics
    /\ UNCHANGED <<top_n, critical, simVars, wesVars, vgaVars>>

\* analyze(graph, weighted), on a new instance or on one that has analyzed
analyze ==
    /\ sspc \in {"new", "analyzed"}
    /\ \E g \in SSGraphs, weighted \in BOOLEAN :
        /\ ss_graph' = g
        /\ ss_weighted' = weighted
        /\ ss_metrics' = AnalyzeResult(g, weighted, ss_graph, ss_metrics)
    /\ sspc' = "analyzed"
    /\ UNCHANGED <<top_n, critical, simVars, wesVars, vgaVars>>

\* identify_critical_nodes(top_n), on a new instance or on one that has
\* analyzed: it returns the rankings or raises
identify_critical_nodes ==
    /\ sspc \in {"new", "analyzed"}
    /\ \E n \in 1..MaxTopN :
        LET r == CriticalNodes(ss_graph, ss_metrics, n)
        IN  /\ top_n' = n
            /\ IF r.raised = None
               THEN sspc' = "ranked" /\ critical' = r.critical
               ELSE sspc' = "raised" /\ critical' = NoValue
    /\ UNCHANGED <<ss_graph, ss_weighted, ss_metrics, simVars, wesVars, vgaVars>>

\* the rankings, or the exception, are with the caller; the instance serves
\* the next call
ReturnSS ==
    /\ sspc \in {"ranked", "raised"}
    /\ sspc' = IF ss_metrics = NoMetrics THEN "new" ELSE "analyzed"
    /\ top_n' = 0 /\ critical' = NoValue
    /\ UNCHANGED <<ss_graph, ss_weighted, ss_metrics, simVars, wesVars, vgaVars>>

\* neither a simulation nor a calculator runs while the analyzer is exercised
InitSS == InitSim /\ rng.seed = 0 /\ InitWESIdle /\ InitSSIdle /\ InitVGAIdle

NextSS ==
    \/ SpaceSyntaxAnalyzer
    \/ analyze
    \/ identify_critical_nodes
    \/ ReturnSS

SpecSS == InitSS /\ [][NextSS]_vars

-----------------------------------------------------------------------------
(* WESCalculator (wes_calculator.py).  Weights, raw and normalized metrics  *)
(* are records over the seven dimensions, their values exact fractions.     *)

PenaltyDims == {"time", "detour", "errors", "hesitations"}
BonusDims == {"visual_integration", "signage", "accessibility"}
Dims == <<"time", "detour", "errors", "hesitations",
          "visual_integration", "signage", "accessibility">>
DimSet == PenaltyDims \cup BonusDims

\* WESWeights(): the default weights
WESWeights ==
    [time |-> RInt(15), detour |-> RInt(10), errors |-> RInt(20),
     hesitations |-> RInt(10), visual_integration |-> RInt(20),
     signage |-> RInt(15), accessibility |-> RInt(10)]

\* NormalizationBenchmarks(): the default benchmarks
NormalizationBenchmarks ==
    [max_acceptable_time |-> RInt(300),
     max_acceptable_detour |-> Rat(15, 10),
     max_acceptable_errors |-> RInt(3),
     max_acceptable_hesitations |-> RInt(5),
     min_visual_integration |-> Rat(3, 10),
     max_visual_integration |-> Rat(9, 10),
     min_signage_score |-> RInt(40),
     max_signage_score |-> RInt(95),
     min_accessibility_score |-> Rat(5, 10),
     max_accessibility_score |-> RInt(1)]

RAbs(a) == <<Abs(a[1]), a[2]>>
RNeg(a) == <<-a[1], a[2]>>

\* time + detour + errors + hesitations + visual_integration + signage + accessibility
WeightTotal(w) == RSum([i \in 1..Len(Dims) |-> w[Dims[i]]])

\* WESWeights.validate: abs(total - 100.0) < 0.01
validate(w) == RLt(RAbs(RSub(WeightTotal(w), RInt(100))), Rat(1, 100))

\* each weight divided by the total only
_normalize_weightsUnit(w) ==
    [d \in DimSet |-> RDiv(w[d], WeightTotal(w))]

\* _normalize_weights: each weight becomes (weight / total) * 100;
\* total = 0 is ZeroDivisionError at the first division
_normalize_weights(w) ==
    [d \in DimSet |-> RMul(RDiv(w[d], WeightTotal(w)), RInt(100))]

\* a key of a results dict: present with a value, or missing
Missing == [has |-> FALSE, v |-> RInt(0)]
Given(v) == [has |-> TRUE, v |-> v]
\* dict.get(key, default)
Get(x, default) == IF x.has THEN x.v ELSE default

\* _extract_raw_metrics.  res.scenarios lists the 'aggregate_metrics' of
\* scenarios.values(); an empty dict takes the else branch.
_extract_raw_metrics(res) ==
    LET sc == res.scenarios
        col(f(_)) == [i \in 1..Len(sc) |-> f(sc[i])]
        time(x) == x.mean_time
        detour(x) == Get(x.detour_index, RInt(1))
        errors(x) == x.mean_errors
        hes(x) == x.mean_hesitations
    IN  [mean_time |-> IF sc # <<>> THEN Mean(col(time)) ELSE RInt(0),
         mean_detour |-> IF sc # <<>> THEN Mean(col(detour)) ELSE RInt(1),
         mean_errors |-> IF sc # <<>> THEN Mean(col(errors)) ELSE RInt(0),
         mean_hesitations |-> IF sc # <<>> THEN Mean(col(hes)) ELSE RInt(0),
         visual_integration |-> Get(res.mean_visual_integration, Rat(5, 10)),
         signage_score |-> Get(res.composite_signage_score, RInt(50)),
         accessibility |-> Get(res.mean_integration, Rat(5, 10))]

\* direct (higher is better) normalization between lo and hi
DirectNorm(x, lo, hi) ==
    IF RLe(x, lo) THEN RInt(0)
    ELSE IF RGe(x, hi) THEN RInt(1)
    ELSE RDiv(RSub(x, lo), RSub(hi, lo))

\* _normalize_metrics
_normalize_metrics(raw) ==
    LET b == NormalizationBenchmarks
        detour_excess == RMax(RInt(0), RSub(raw.mean_detour, RInt(1)))
        max_excess == RSub(b.max_acceptable_detour, RInt(1))
    IN  [time |->
            IF RLe(raw.mean_time, RInt(0)) THEN RInt(1)
            ELSE IF RGe(raw.mean_time, b.max_acceptable_time) THEN RInt(0)
            ELSE RSub(RInt(1), RDiv(raw.mean_time, b.max_acceptable_time)),
         detour |->
            IF RGe(detour_excess, max_excess) THEN RInt(0)
            ELSE RSub(RInt(1), RDiv(detour_excess, max_excess)),
         errors |->
            IF RGe(raw.mean_errors, b.max_acceptable_errors) THEN RInt(0)
            ELSE RSub(RInt(1), RDiv(raw.mean_errors, b.max_acceptable_errors)),
         hesitations |->
            IF RGe(raw.mean_hesitations, b.max_acceptable_hesitations) THEN RInt(0)
            ELSE RSub(RInt(1), RDiv(raw.mean_hesitations,
                                    b.max_acceptable_hesitations)),
         visual_integration |->
            DirectNorm(raw.visual_integration,
                       b.min_visual_integration, b.max_visual_integration),
         signage |->
            DirectNorm(raw.signage_score, b.min_signage_score, b.max_signage_score),
         accessibility |->
            DirectNorm(raw.accessibility,
                       b.min_accessibility_score, b.max_accessibility_score)]

\* the four penalties: weight * (1 - normalized)
Penalties(w, n) ==
    RSum([i \in 1..4 |-> RMul(w[Dims[i]], RSub(RInt(1), n[Dims[i]]))])
\* the three bonuses: weight * normalized
Bonuses(w, n) ==
    RSum([i \in 1..3 |-> RMul(w[Dims[4 + i]], n[Dims[4 + i]])])

\* the penalties taken as weight * normalized
_compute_wes_scoreDirectPenalty(w, n) ==
    LET penalty == RSum([i \in 1..4 |-> RMul(w[Dims[i]], n[Dims[i]])])
        s == RAdd(RSub(RInt(100), penalty), Bonuses(w, n))
    IN  RMax(RInt(0), RMin(RInt(100), s))

\* without the clamp
_compute_wes_scoreUnclamped(w, n) ==
    RAdd(RSub(RInt(100), Penalties(w, n)), Bonuses(w, n))

\* _compute_wes_score
_compute_wes_score(w, n) ==
    LET s == RAdd(RSub(RInt(100), Penalties(w, n)), Bonuses(w, n))
    IN  RMax(RInt(0), RMin(RInt(100), s))

\* the top band starting at 85
_interpret_wesFrom85(wes_score) ==
    IF RGe(wes_score, RInt(85)) THEN "Excellent"
    ELSE IF RGe(wes_score, RInt(75)) THEN "Good"
    ELSE IF RGe(wes_score, RInt(60)) THEN "Acceptable"
    ELSE IF RGe(wes_score, RInt(45)) THEN "Poor"
    ELSE "Critical"

\* _interpret_wes (the English label of the band)
_interpret_wes(wes_score) ==
    IF RGe(wes_score, RInt(90)) THEN "Excellent"
    ELSE IF RGe(wes_score, RInt(75)) THEN "Good"
    ELSE IF RGe(wes_score, RInt(60)) THEN "Acceptable"
    ELSE IF RGe(wes_score, RInt(45)) THEN "Poor"
    ELSE "Critical"

\* the D band left out
_get_gradeNoD(wes_score) ==
    IF RGe(wes_score, RInt(90)) THEN "A+"
    ELSE IF RGe(wes_score, RInt(85)) THEN "A"
    ELSE IF RGe(wes_score, RInt(80)) THEN "A-"
    ELSE IF RGe(wes_score, RInt(75)) THEN "B+"
    ELSE IF RGe(wes_score, RInt(70)) THEN "B"
    ELSE IF RGe(wes_score, RInt(65)) THEN "B-"
    ELSE IF RGe(wes_score, RInt(60)) THEN "C+"
    ELSE IF RGe(wes_score, RInt(55)) THEN "C"
    ELSE IF RGe(wes_score, RInt(50)) THEN "C-"
    ELSE "F"

\* _get_grade
_get_grade(wes_score) ==
    IF RGe(wes_score, RInt(90)) THEN "A+"
    ELSE IF RGe(wes_score, RInt(85)) THEN "A"
    ELSE IF RGe(wes_score, RInt(80)) THEN "A-"
    ELSE IF RGe(wes_score, RInt(75)) THEN "B+"
    ELSE IF RGe(wes_score, RInt(70)) THEN "B"
    ELSE IF RGe(wes_score, RInt(65)) THEN "B-"
    ELSE IF RGe(wes_score, RInt(60)) THEN "C+"
    ELSE IF RGe(wes_score, RInt(55)) THEN "C"
    ELSE IF RGe(wes_score, RInt(50)) THEN "C-"
    ELSE IF RGe(wes_score, RInt(45)) THEN "D"
    ELSE "F"

\* the contributions as magnitudes: the penalties without their sign
_calculate_component_contributionsMagnitudes(w, n) ==
    [d \in DimSet |->
        IF d \in PenaltyDims THEN RMul(w[d], RSub(RInt(1), n[d]))
        ELSE RMul(w[d], n[d])]

\* _calculate_component_contributions
_calculate_component_contributions(w, n) ==
    [d \in DimSet |->
        IF d \in PenaltyDims THEN RNeg(RMul(w[d], RSub(RInt(1), n[d])))
        ELSE RMul(w[d], n[d])]

\* one entry of the priority list: the impact is
\* potential_improvement * weight * 0.9 with potential_improvement = 1 - value
PriorityEntry(w, n, d) ==
    LET potential_improvement == RSub(RInt(1), n[d])
        impact_score == RMul(RMul(potential_improvement, w[d]), Rat(9, 10))
    IN  [metric |-> d,
         current_normalized |-> n[d],
         improvement_potential |-> potential_improvement,
         impact_on_wes |-> impact_score,
         priority |-> IF RGt(impact_score, RInt(5)) THEN "HIGH"
                      ELSE IF RGt(impact_score, RInt(2)) THEN "MEDIUM"
                      ELSE "LOW"]

\* priorities.sort(key=impact_on_wes, reverse=True): stable, so an entry goes
\* behind the entries of the same impact that came before it
RECURSIVE InsertByImpact(_, _)
InsertByImpact(sorted, e) ==
    IF sorted = <<>> THEN <<e>>
    ELSE IF RLt(Head(sorted).impact_on_wes, e.impact_on_wes) THEN <<e>> \o sorted
    ELSE <<Head(sorted)>> \o InsertByImpact(Tail(sorted), e)

RECURSIVE SortByImpact(_)
SortByImpact(es) ==
    IF es = <<>> THEN <<>>
    ELSE InsertByImpact(SortByImpact(SubSeq(es, 1, Len(es) - 1)), es[Len(es)])

\* _identify_improvement_priorities: the metrics in the order of the dict,
\* those at 0.9 or more skipped
_identify_improvement_priorities(w, n) ==
    LET kept == SelectSeq(Dims, LAMBDA d : RLt(n[d], Rat(9, 10)))
    IN  SortByImpact([k \in 1..Len(kept) |-> PriorityEntry(w, n, kept[k])])

-----------------------------------------------------------------------------
(* Inputs of the calculator *)

\* the weights given to the constructor go up to MaxWeightScale/2 times the defaults
MaxWeightScale == 2
\* raw metrics are taken at GridSteps steps between the two ends of a benchmark
GridSteps == 4

Scaled(c) == [d \in DimSet |-> RMul(Rat(c, 2), WESWeights[d])]
Shifted(d, delta) == [WESWeights EXCEPT ![d] = RAdd(@, delta)]
Swapped(i, delta) ==
    [WESWeights EXCEPT ![Dims[i]] = RAdd(@, delta),
                       ![Dims[(i % Len(Dims)) + 1]] = RSub(@, delta)]

\* WESWeights(...) objects: the defaults scaled (zero and negative included),
\* one weight changed (the total leaves 100, by more or by less than 0.01),
\* and one weight moved to its neighbour (the total stays 100; a weight may
\* fall below zero)
WeightChoices ==
    {Scaled(c) : c \in -1..MaxWeightScale}
    \cup {Shifted(d, x) : d \in DimSet,
                          x \in {RInt(-25), RInt(-5), Rat(-1, 200), Rat(1, 200), RInt(5)}}
    \cup {Swapped(i, x) : i \in 1..Len(Dims), x \in {RInt(5), RInt(25), RInt(100)}}

\* the ends of each raw metric: the optimum of a penalty and its
\* maximum-acceptable threshold, the two benchmarks of a bonus
RawLo ==
    [mean_time |-> RInt(0), mean_detour |-> RInt(1), mean_errors |-> RInt(0),
     mean_hesitations |-> RInt(0),
     visual_integration |-> NormalizationBenchmarks.min_visual_integration,
     signage_score |-> NormalizationBenchmarks.min_signage_score,
     accessibility |-> NormalizationBenchmarks.min_accessibility_score]
RawHi ==
    [mean_time |-> NormalizationBenchmarks.max_acceptable_time,
     mean_detour |-> NormalizationBenchmarks.max_acceptable_detour,
     mean_errors |-> NormalizationBenchmarks.max_acceptable_errors,
     mean_hesitations |-> NormalizationBenchmarks.max_acceptable_hesitations,
     visual_integration |-> NormalizationBenchmarks.max_visual_integration,
     signage_score |-> NormalizationBenchmarks.max_signage_score,
     accessibility |-> NormalizationBenchmarks.max_accessibility_score]
RawKeys == DOMAIN RawLo
PenaltyKeys == {"mean_time", "mean_detour", "mean_errors", "mean_hesitations"}

GridValue(key, k) ==
    RAdd(RawLo[key], RMul(Rat(k, GridSteps), RSub(RawHi[key], RawLo[key])))

BestRaw == [key \in RawKeys |-> IF key \in PenaltyKeys THEN RawLo[key] ELSE RawHi[key]]
WorstRaw == [key \in RawKeys |-> IF key \in PenaltyKeys THEN RawHi[key] ELSE RawLo[key]]

\* the best and the worst building with one metric moved along its grid,
\* one step past either end included
RawGrid ==
    {[base EXCEPT ![key] = GridValue(key, k)] :
        base \in {BestRaw, WorstRaw}, key \in RawKeys, k \in -1..(GridSteps + 1)}

\* the 'aggregate_metrics' of one scenario
ScenarioMetrics(raw, with_detour) ==
    [mean_time |-> raw.mean_time,
     detour_index |-> IF with_detour THEN Given(raw.mean_detour) ELSE Missing,
     mean_errors |-> raw.mean_errors,
     mean_hesitations |-> raw.mean_hesitations]

\* the four results dicts that carry the raw metrics `raw`
AsResults(raw) ==
    [scenarios |-> <<ScenarioMetrics(raw, TRUE)>>, scenarios_in |-> "dict",
     mean_visual_integration |-> Given(raw.visual_integration),
     composite_signage_score |-> Given(raw.signage_score),
     mean_integration |-> Given(raw.accessibility)]

\* four empty dicts
EmptyResults ==
    [scenarios |-> <<>>, scenarios_in |-> "dict",
     mean_visual_integration |-> Missing,
     composite_signage_score |-> Missing, mean_integration |-> Missing]

\* two scenarios, the second without a detour_index
TwoScenarioResults ==
    [scenarios |-> <<ScenarioMetrics(BestRaw, TRUE), ScenarioMetrics(WorstRaw, FALSE)>>,
     scenarios_in |-> "dict",
     mean_visual_integration |-> Given(GridValue("visual_integration", 1)),
     composite_signage_score |-> Missing,
     mean_integration |-> Given(GridValue("accessibility", 2))]

\* The results of the engines themselves.
\* simulate(scenarios, n_agents=1) on GraphB with seed 0 and no catalogs
EngineCalls ==
    {[graph |-> GraphB, scenarios |-> scs, n_agents |-> 1,
      signage_locations |-> NoCatalog, landmarks |-> NoCatalog,
      rng |-> [seed |-> 0, pos |-> 0]] :
        scs \in { << [origin |-> "entrance", destination |-> "emergency"] >>,
                  << [origin |-> "entrance", destination |-> "emergency"],
                     [origin |-> "pharmacy", destination |-> "emergency"] >> }}

\* 'scenarios' of the dict simulate returns for a call whose scenarios all
\* run: the list all_results, each entry the scenario's name and endpoints
\* merged with its aggregate
SimulatedScenarios(c) ==
    LET Entry(k, scenario_agents) ==
            [scenario |-> ScenarioName(c.scenarios[k]),
             origin |-> c.scenarios[k].origin,
             destination |-> c.scenarios[k].destination]
            @@ _aggregate_scenario_results(scenario_agents)
    IN  [k \in 1..Len(c.scenarios) |->
            CHOOSE entry \in {Entry(k, out[k]) : out \in {Replay(c)}} : TRUE]

\* the keys of the dict VisibilityAnalyzer.analyze returns, and its summary
\* (vga_isovists.py:73-80, 463-464)
VGAResultKeys ==
    {"sample_points", "isovists", "visibility_graph", "vga_metrics",
     "critical_points", "summary"}
VGASummary == [mean_visual_integration |-> GridValue("visual_integration", 3)]

\* the four dicts when they come from the engines: the simulation result of
\* the call, the integration of the path graph as analyze reports it under
\* 'integration', the VGA result and a signage score.  'scenarios' is a list; vga_results has no 'summary_statistics';
\* 'integration' is keyed by node and has no 'mean_integration'
EngineResults(c) ==
    LET ss == [integration |-> _calculate_integration(PathGraph, TRUE)]
    IN  [scenarios |-> SimulatedScenarios(c), scenarios_in |-> "list",
         mean_visual_integration |->
            IF "summary_statistics" \in VGAResultKeys
            THEN Given(VGASummary.mean_visual_integration) ELSE Missing,
         composite_signage_score |-> Given(GridValue("signage_score", 2)),
         mean_integration |->
            IF "mean_integration" \in DOMAIN ss.integration
            THEN Given(ss.integration["mean_integration"]) ELSE Missing,
         vga_summary |-> VGASummary,
         integration |-> ss.integration]

EngineResultChoices == {EngineResults(c) : c \in EngineCalls}

\* results that came from the engines
FromEngines(res) == "vga_summary" \in DOMAIN res

ResultChoices ==
    {AsResults(raw) : raw \in RawGrid} \cup {EmptyResults, TwoScenarioResults}
        \cup EngineResultChoices

\* scenarios.values() of a list that is not empty: AttributeError
\* (wes_calculator.py:198-201)
ExtractRaises(res) == res.scenarios_in = "list" /\ res.scenarios # <<>>

-----------------------------------------------------------------------------
(* The calculator's operations *)

\* WESCalculator.__init__(weights): validate, and _normalize_weights if the
\* total is off; a total of 0 raises ZeroDivisionError out of the constructor
__init__ ==
    /\ wpc = "none"
    /\ \E w \in WeightChoices :
        /\ given_weights' = w
        /\ IF validate(w)
           THEN weights' = w /\ wpc' = "ready"
           ELSE IF WeightTotal(w) = RInt(0)
           THEN weights' = w /\ wpc' = "raised"
           ELSE weights' = _normalize_weights(w) /\ wpc' = "ready"
    /\ UNCHANGED <<results, raw_metrics, normalized_metrics, wes, simVars, ssVars, vgaVars>>

\* calculate_wes(space_syntax_results, vga_results, agent_simulation_results,
\*               signage_results)
calculate_wes ==
    /\ wpc = "ready"
    /\ \E res \in ResultChoices :
        /\ results' = res
        /\ IF ExtractRaises(res)
           THEN /\ wpc' = "failed"
                /\ UNCHANGED <<raw_metrics, normalized_metrics, wes>>
           ELSE LET raw == _extract_raw_metrics(res)
                    normalized == _normalize_metrics(raw)
                    wes_score == _compute_wes_score(weights, normalized)
                IN  /\ raw_metrics' = raw
                    /\ normalized_metrics' = normalized
                    /\ wes' = [wes_score |-> wes_score,
                               interpretation |-> _interpret_wes(wes_score),
                               grade |-> _get_grade(wes_score),
                               component_contributions |->
                                    _calculate_component_contributions(weights, normalized),
                               improvement_priorities |->
                                    _identify_improvement_priorities(weights, normalized),
                               weights_used |-> weights]
                    /\ wpc' = "scored"
    /\ UNCHANGED <<weights, given_weights, simVars, ssVars, vgaVars>>

\* the results dict, or the exception, is handed to the caller; the
\* calculator serves the next call
ReturnWES ==
    /\ wpc \in {"scored", "failed"}
    /\ wpc' = "ready"
    /\ results' = NoValue
    /\ raw_metrics' = NoValue /\ normalized_metrics' = NoValue /\ wes' = NoValue
    /\ UNCHANGED <<weights, given_weights, simVars, ssVars, vgaVars>>

\* no simulation runs while the calculator is exercised
InitWES == InitSim /\ rng.seed = 0 /\ InitWESIdle /\ InitSSIdle /\ InitVGAIdle

NextWES ==
    \/ __init__
    \/ calculate_wes
    \/ ReturnWES

SpecWES == InitWES /\ [][NextWES]_vars

-----------------------------------------------------------------------------
(* VisibilityAnalyzer (vga_isovists.py) *)

\* Points are pairs <<x, y>> of pixel coordinates, a LineString of two
\* points is the pair of its ends.
IMax(a, b) == IF a < b THEN b ELSE a
Sign(x) == IF x < 0 THEN -1 ELSE IF x > 0 THEN 1 ELSE 0

\* twice the signed area of the triangle o, a, b
Cross(o, a, b) ==
    (a[1] - o[1]) * (b[2] - o[2]) - (a[2] - o[2]) * (b[1] - o[1])

\* p, known to lie on the line through s, lies between the ends of s
Between(s, p) ==
    /\ IMin(s[1][1], s[2][1]) <= p[1] /\ p[1] <= IMax(s[1][1], s[2][1])
    /\ IMin(s[1][2], s[2][2]) <= p[2] /\ p[2] <= IMax(s[1][2], s[2][2])

\* shapely's s.intersects(t) for two LineStrings of two points each: the
\* closed segments share a point
Intersects(s, t) ==
    LET d1 == Cross(t[1], t[2], s[1])
        d2 == Cross(t[1], t[2], s[2])
        d3 == Cross(s[1], s[2], t[1])
        d4 == Cross(s[1], s[2], t[2])
    IN  \/ Sign(d1) * Sign(d2) < 0 /\ Sign(d3) * Sign(d4) < 0
        \/ d1 = 0 /\ Between(t, s[1])
        \/ d2 = 0 /\ Between(t, s[2])
        \/ d3 = 0 /\ Between(s, t[1])
        \/ d4 = 0 /\ Between(s, t[2])

\* _prepare_obstacles: one LineString per wall, from its start to its end
_prepare_obstacles(walls) ==
    [k \in 1..Len(walls) |-> <<walls[k].start, walls[k].end>>]

\* self.grid_size, the default of the constructor: half a metre
grid_size == Rat(1, 2)

\* int(self.grid_size * scale), at least 1
grid_step_px(scale) ==
    LET px == RMul(grid_size, RInt(scale))
    IN  IMax(1, px[1] \div px[2])

\* pixel_value > 128: the image is given by its size and its dark pixels
_is_free_space(x, y, image) ==
    /\ 0 <= x /\ x < image.w /\ 0 <= y /\ y < image.h
    /\ <<x, y>> \notin image.dark

\* len(range(0, n, step))
RangeLen(n, step) == (n + step - 1) \div step

\* _generate_sample_grid: the free pixels of the grid, row by row (the
\* grids of this model stay far below the 5000 points above which the code
\* draws a random sample)
_generate_sample_grid(image, scale) ==
    LET step == grid_step_px(scale)
        cols == RangeLen(image.w, step)
        rows == RangeLen(image.h, step)
        grid == [k \in 1..(rows * cols) |->
                    <<((k - 1) % cols) * step, ((k - 1) \div cols) * step>>]
    IN  SelectSeq(grid, LAMBDA p : _is_free_space(p[1], p[2], image))

\* The rays of an isovist leave the origin at the angles 2*pi*i/n_rays.  The
\* model casts the rays whose directions (cos, sin) are whole numbers: one,
\* two or four rays, along the axes.
Directions(n_rays) ==
    CASE n_rays = 1 -> <<(<<1, 0>>)>>
      [] n_rays = 2 -> <<(<<1, 0>>), (<<-1, 0>>)>>
      [] n_rays = 4 -> <<(<<1, 0>>), (<<0, 1>>), (<<-1, 0>>), (<<0, -1>>)>>

\* how far p lies from o along the direction d, and to the left of it
Along(o, d, p) == (p[1] - o[1]) * d[1] + (p[2] - o[2]) * d[2]
Across(o, d, p) == (p[2] - o[2]) * d[1] - (p[1] - o[1]) * d[2]

\* One obstacle against the ray of length max_distance from origin along d
\* (lines 228-246): <<>> when ray.intersects(obstacle) is false, else the
\* distance from the origin to the first coordinate of the intersection.
\* An obstacle that crosses the ray meets it in one point; an obstacle that
\* lies along the ray shares a stretch with it, and the code reads the end
\* of that stretch the library lists first.
RayHit(orig, d, max_distance, obstacle) ==
    LET ha == Across(orig, d, obstacle[1])
        hb == Across(orig, d, obstacle[2])
        ta == Along(orig, d, obstacle[1])
        tb == Along(orig, d, obstacle[2])
    IN  IF ha = 0 /\ hb = 0
        THEN LET lo == IMax(0, IMin(ta, tb))
                 hi == IMin(max_distance, IMax(ta, tb))
             IN  IF lo > hi THEN <<>>
                 ELSE IF overlap_first = "near" THEN <<RInt(lo)>>
                 ELSE <<RInt(hi)>>
        ELSE IF Sign(ha) * Sign(hb) > 0 THEN <<>>
        ELSE LET t == RAdd(RInt(ta), Rat((tb - ta) * ha, ha - hb))
             IN  IF RLe(RInt(0), t) /\ RLe(t, RInt(max_distance))
                 THEN <<t>> ELSE <<>>

\* the loop over self.obstacles of one ray (lines 225-250): min_distance
\* after the obstacles from the k-th on, starting from m
RECURSIVE MinDistance(_, _, _, _, _, _)
MinDistance(obs, orig, d, max_distance, k, m) ==
    IF k > Len(obs) THEN m
    ELSE LET hit == RayHit(orig, d, max_distance, obs[k])
         IN  MinDistance(obs, orig, d, max_distance, k + 1,
                         IF hit # <<>> /\ RLt(hit[1], m) THEN hit[1] ELSE m)

\* the end of one ray, where a ray that meets no obstacle ends at the
\* default reach of 1000 pixels instead of at max_distance
RayEndDefaultReach(obs, orig, d, max_distance) ==
    LET len == MinDistance(obs, orig, d, max_distance, 1, RInt(max_distance))
    IN  IF len = RInt(max_distance)
        THEN <<RInt(orig[1] + 1000 * d[1]), RInt(orig[2] + 1000 * d[2])>>
        ELSE <<RAdd(RInt(orig[1]), RMul(len, RInt(d[1]))),
               RAdd(RInt(orig[2]), RMul(len, RInt(d[2])))>>

\* the end of one ray (lines 253-256): the closest intersection, or the
\* point at max_distance; both lie at min_distance from the origin
RayEnd(obs, orig, d, max_distance) ==
    LET len == MinDistance(obs, orig, d, max_distance, 1, RInt(max_distance))
    IN  <<RAdd(RInt(orig[1]), RMul(len, RInt(d[1]))),
          RAdd(RInt(orig[2]), RMul(len, RInt(d[2])))>>

\* Polygon(): the empty polygon
EmptyPolygon == <<>>

\* _compute_isovist_polygon(origin, n_rays, max_distance) with
\* self.obstacles = obs: the ends of the rays in the order of their angles,
\* or the empty polygon when there are fewer than three
IsovistPolygon(obs, orig, n_rays, max_distance) ==
    IF n_rays >= 3
    THEN [i \in 1..n_rays |->
            RayEnd(obs, orig, Directions(n_rays)[i], max_distance)]
    ELSE EmptyPolygon

\* shapely's polygon.area: half the absolute value of the shoelace sum
Area(polygon) ==
    LET n == Len(polygon)
        term(i) ==
            LET a == polygon[i]
                b == polygon[(i % n) + 1]
            IN  RSub(RMul(a[1], b[2]), RMul(b[1], a[2]))
    IN  IF polygon = EmptyPolygon THEN RInt(0)
        ELSE RDiv(RAbs(RSum([i \in 1..n |-> term(i)])), RInt(2))

\* _analyze_isovist: of the properties of the polygon the model keeps the
\* area (the perimeter and the radials are lengths that are not rational)
_analyze_isovist(polygon) == [area |-> Area(polygon)]

\* the record stored for a point whose isovist could not be computed
FailedIsovist == [polygon |-> None, area |-> RInt(0)]

\* n_rays and max_distance of _calculate_isovists (the code casts 72 rays,
\* of which the model casts the four along the axes)
n_rays == Len(Directions(4))
max_distance == 1000
IsovistPoints == 1000

First(s, n) == SubSeq(s, 1, IMin(n, Len(s)))

\* _calculate_isovists: one record per point among the first 1000; failing
\* holds the points for which _compute_isovist_polygon or _analyze_isovist
\* raises, and the handler of line 187 stores a zero record for them
_calculate_isovists(obs, sample_points, failing) ==
    [point \in Range(First(sample_points, IsovistPoints)) |->
        IF point \in failing THEN FailedIsovist
        ELSE LET polygon == IsovistPolygon(obs, point, n_rays, max_distance)
             IN  [polygon |-> polygon, area |-> _analyze_isovist(polygon).area]]

\* _has_line_of_sight, checking the first obstacle only
_has_line_of_sightFirstOnly(obs, p1, p2) ==
    obs = <<>> \/ ~Intersects(<<p1, p2>>, obs[1])

\* _has_line_of_sight(p1, p2) with self.obstacles = obs
_has_line_of_sight(obs, p1, p2) ==
    \A k \in 1..Len(obs) : ~Intersects(<<p1, p2>>, obs[k])

\* threshold_distance of _build_visibility_graph
threshold_distance == 50

\* points[:500] and points[i+1:500]: the number of points between which
\* edges are looked for (500 in the code), scaled to the grids of the model
FirstPoints == 4

DistSq(p1, p2) ==
    (p1[1] - p2[1]) * (p1[1] - p2[1]) + (p1[2] - p2[2]) * (p1[2] - p2[2])

\* np.sqrt(...) < threshold_distance, for whole coordinates
Near(p1, p2) == DistSq(p1, p2) < threshold_distance * threshold_distance

\* the pairs (i, j) the two loops of lines 328-329 visit
EdgePairs(points) ==
    LET n == IMin(FirstPoints, Len(points))
    IN  {ij \in (1..n) \X (1..n) : ij[1] < ij[2]}

\* _has_line_of_sight is called for the pair and raises: nothing in
\* _build_visibility_graph catches it
BuildRaises(points, failing_pairs) ==
    \E ij \in EdgePairs(points) :
        /\ Near(points[ij[1]], points[ij[2]])
        /\ <<points[ij[1]], points[ij[2]]>> \in failing_pairs

\* _build_visibility_graph(points, isovists) with self.obstacles = obs,
\* when no call of _has_line_of_sight raises: every point is a node, and
\* the weight of an edge is kept as the square of its length
VisibilityGraph(obs, points, isovists) ==
    [nodes |-> points,
     edges |-> {<<points[ij[1]], points[ij[2]]>> : ij \in
                  {ij \in EdgePairs(points) :
                      /\ Near(points[ij[1]], points[ij[2]])
                      /\ _has_line_of_sight(obs, points[ij[1]], points[ij[2]])}}]

\* len(list(vg.neighbors(node)))
VisibleNeighbors(vg, node) ==
    Cardinality({e \in vg.edges : node \in {e[1], e[2]}})

\* the record stored for a node whose metrics could not be computed
FailedMetrics ==
    [visual_integration |-> RInt(0), visible_neighbors |-> 0,
     isovist_area |-> RInt(0)]

\* _calculate_vga_metrics(vg, isovists): failing holds the nodes for which
\* the computation raises, and the handler of line 392 stores a zero record
_calculate_vga_metrics(vg, isovists, failing) ==
    [node \in Range(vg.nodes) |->
        IF node \in failing THEN FailedMetrics
        ELSE LET visible_neighbors == VisibleNeighbors(vg, node)
                 isovist_area ==
                     IF node \in DOMAIN isovists THEN isovists[node].area
                     ELSE RInt(0)
             IN  [visual_integration |->
                      RAdd(RMul(Rat(1, 2), RInt(visible_neighbors)),
                           RMul(Rat(1, 2), RDiv(isovist_area, RInt(10000)))),
                  visible_neighbors |-> visible_neighbors,
                  isovist_area |-> isovist_area]]

\* ---- inputs

\* the floor plan: 61 by 31 pixels, at most one dark pixel on the grid
ImageW == 61
ImageH == 31
Scales == {60, 120}
GridPixels == {<<x, y>> \in {0, 30, 60} \X {0, 30} : TRUE}
Images ==
    {[h |-> ImageH, w |-> ImageW, dark |-> dark] :
        dark \in {d \in SUBSET GridPixels : Cardinality(d) <= 1}}

Wall(a, b) == [start |-> a, end |-> b]
\* a wall between the first two columns, one between the rows, a slanted
\* one, one along the upper row (in both directions), one ending in a grid
\* point
WallChoices ==
    {<<>>,
     <<Wall(<<15, -10>>, <<15, 40>>)>>,
     <<Wall(<<20, 15>>, <<70, 15>>)>>,
     <<Wall(<<35, -5>>, <<55, 15>>)>>,
     <<Wall(<<40, 0>>, <<50, 0>>)>>,
     <<Wall(<<50, 0>>, <<40, 0>>)>>,
     <<Wall(<<30, 30>>, <<30, 45>>)>>,
     <<Wall(<<20, 15>>, <<70, 15>>), Wall(<<15, -10>>, <<15, 40>>)>>,
     <<Wall(<<50, 0>>, <<40, 0>>), Wall(<<45, -5>>, <<45, 5>>)>>}

NoFaults == [isovist |-> {}, sight |-> {}, metrics |-> {}]
\* what fails in one run: nothing, the isovist of one point, the line of
\* sight of one pair, or the metrics of one node
Faults(points) ==
    {NoFaults}
    \cup {[NoFaults EXCEPT !.isovist = {p}] : p \in Range(points)}
    \cup {[NoFaults EXCEPT !.metrics = {p}] : p \in Range(points)}
    \cup {[NoFaults EXCEPT !.sight = {<<points[ij[1]], points[ij[2]]>>}] :
            ij \in {ij \in (1..Len(points)) \X (1..Len(points)) : ij[1] < ij[2]}}

RayCounts == {2, 4}
Radii == {20, 45, 1000}

\* ---- operations

\* VisibilityAnalyzer(): a new instance takes the place of the used one
VisibilityAnalyzer ==
    /\ vpc # "new"
    /\ vpc' = "new" /\ obstacles' = <<>> /\ visibility_graph' = NoValue
    /\ vga_call' = NoCall /\ vga_result' = NoValue
    /\ UNCHANGED <<overlap_first, simVars, wesVars, ssVars>>

\* analyze(floor_plan_image, walls, scale_px_per_meter) on a new instance:
\* it returns the result dict or raises
vga_analyze ==
    /\ vpc = "new"
    /\ \E image \in Images, walls \in WallChoices, scale \in Scales :
        LET obs == _prepare_obstacles(walls)
            sample_points == _generate_sample_grid(image, scale)
        IN  \E faults \in Faults(sample_points) :
            LET isovists == _calculate_isovists(obs, sample_points, faults.isovist)
                vg == VisibilityGraph(obs, sample_points, isovists)
            IN  /\ obstacles' = obs
                /\ vga_call' = [op |-> "analyze", image |-> image,
                                sample_points |-> sample_points,
                                faults |-> faults]
                /\ IF BuildRaises(sample_points, faults.sight)
                   THEN /\ vpc' = "raised"
                        /\ visibility_graph' = visibility_graph
                        /\ vga_result' = NoValue
                   ELSE /\ vpc' = "returned"
                        /\ visibility_graph' = vg
                        /\ vga_result' =
                            [sample_points |-> sample_points,
                             isovists |-> isovists,
                             visibility_graph |-> vg,
                             vga_metrics |->
                                 _calculate_vga_metrics(vg, isovists,
                                                        faults.metrics)]
    /\ UNCHANGED <<overlap_first, simVars, wesVars, ssVars>>

\* _compute_isovist_polygon(origin, n_rays, max_distance), called on an
\* instance whose obstacles analyze has prepared
_compute_isovist_polygon ==
    /\ vpc \in {"returned", "raised"}
    /\ \E o \in GridPixels, n \in RayCounts, r \in Radii :
        /\ vga_call' = [op |-> "_compute_isovist_polygon", origin |-> o,
                        n_rays |-> n, max_distance |-> r]
        /\ vga_result' = [polygon |-> IsovistPolygon(obstacles, o, n, r)]
    /\ vpc' = "measured"
    /\ UNCHANGED <<obstacles, visibility_graph, overlap_first,
                   simVars, wesVars, ssVars>>

\* neither of the other parts runs while the visibility analyzer is
\* exercised; the library lists the shared stretch from either end
InitVGA ==
    /\ InitSim /\ rng.seed = 0 /\ InitWESIdle /\ InitSSIdle
    /\ vpc = "new" /\ obstacles = <<>> /\ visibility_graph = NoValue
    /\ vga_call = NoCall /\ vga_result = NoValue
    /\ overlap_first \in {"near", "far"}

NextVGA ==
    \/ VisibilityAnalyzer
    \/ vga_analyze
    \/ _compute_isovist_polygon

SpecVGA == InitVGA /\ [][NextVGA]_vars

-----------------------------------------------------------------------------
(* Claims about the calculator *)

AllEqual(n, v) == \A d \in DimSet : n[d] = v
Scored == wpc = "scored"
DefaultWeighted == Scored /\ weights = WESWeights

\* C6 (as the code has it): with the default weights, seven normalized
\* metrics all 1.0 give score 100.0 and grade "A+"; seven normalized metrics
\* all 0.0 give score 45.0 (100 minus the four penalty weights) and grade "D".
ExtremeScores ==
    DefaultWeighted =>
        /\ AllEqual(normalized_metrics, RInt(1)) =>
                wes.wes_score = RInt(100) /\ wes.grade = "A+"
        /\ AllEqual(normalized_metrics, RInt(0)) =>
                wes.wes_score = RInt(45) /\ wes.grade = "D"

\* C6 witness: the default calculator has scored seven zeros
ExtremeScoresWitness ==
    DefaultWeighted /\ AllEqual(normalized_metrics, RInt(0))

\* C6 as stated: with the default weights, all 1.0 gives score 100.0 and
\* grade "A+", and all 0.0 gives score 0.0 and grade "F".
ExtremeScoresAsStated ==
    DefaultWeighted =>
        /\ AllEqual(normalized_metrics, RInt(1)) =>
                wes.wes_score = RInt(100) /\ wes.grade = "A+"
        /\ AllEqual(normalized_metrics, RInt(0)) =>
                wes.wes_score = RInt(0) /\ wes.grade = "F"

\* normalized values a single dimension is moved to
NormValues == {Rat(k, GridSteps) : k \in -1..(GridSteps + 1)}

\* of two vectors that differ in one dimension only, the one with the larger
\* value there scores at least as much: checked for the vector just scored
\* against every vector that differs from it in one dimension
MonotonicAround(w, n) ==
    \A d \in DimSet : \A v \in NormValues :
        LET m == [n EXCEPT ![d] = v]
        IN  /\ RGe(v, n[d]) => RGe(_compute_wes_score(w, m), _compute_wes_score(w, n))
            /\ RLe(v, n[d]) => RLe(_compute_wes_score(w, m), _compute_wes_score(w, n))

NonNegative(w) == \A d \in DimSet : RGe(w[d], RInt(0))

\* C7 (as the code has it): for calculator weights that are all non-negative,
\* WES is monotonic in every dimension: of two vectors of seven normalized
\* metrics that differ in one dimension only, the one with the larger value
\* in that dimension has a score greater than or equal to the other's.
MonotonicScore ==
    (Scored /\ NonNegative(weights)) =>
        /\ wes.wes_score = _compute_wes_score(weights, normalized_metrics)
        /\ MonotonicAround(weights, normalized_metrics)

\* C7 witness: a calculator with non-negative, renormalized weights has
\* scored a vector, and raising one dimension of it raises the score
MonotonicScoreWitness ==
    /\ Scored /\ NonNegative(weights) /\ weights # WESWeights
    /\ \E d \in DimSet : \E v \in NormValues :
        /\ RGt(v, normalized_metrics[d])
        /\ RGt(_compute_wes_score(weights, [normalized_metrics EXCEPT ![d] = v]),
               wes.wes_score)

\* C7 as stated: the same for any calculator weights.
MonotonicScoreAsStated ==
    Scored =>
        /\ wes.wes_score = _compute_wes_score(weights, normalized_metrics)
        /\ MonotonicAround(weights, normalized_metrics)

\* C8: for every set of weights and every vector of normalized metrics, the
\* score of _compute_wes_score, reported as wes_score by calculate_wes, is
\* between 0 and 100.
ScoreClamped ==
    Scored =>
        /\ wes.wes_score = _compute_wes_score(weights, normalized_metrics)
        /\ RLe(RInt(0), wes.wes_score) /\ RLe(wes.wes_score, RInt(100))

\* C8 witness: penalties and bonuses add up to more than 100 and the score
\* reported is 100
ScoreClampedWitness ==
    /\ Scored
    /\ RGt(RAdd(RSub(RInt(100), Penalties(weights, normalized_metrics)),
                Bonuses(weights, normalized_metrics)), RInt(100))
    /\ wes.wes_score = RInt(100)

InUnit(x) == RLe(RInt(0), x) /\ RLe(x, RInt(1))

\* C9 as stated: for all raw metric values, _normalize_metrics returns seven
\* values each in [0,1]; each penalty dimension is 0 when the raw value is at
\* or above its maximum-acceptable threshold and 1 when the raw value is
\* zero (the detour ratio also at 1.0, no detour); each bonus dimension is 0 at
\* or below its minimum benchmark and 1 at or above its maximum benchmark.
NormalizedInRange ==
    Scored =>
        LET raw == raw_metrics
            n == normalized_metrics
            b == NormalizationBenchmarks
        IN  /\ n = _normalize_metrics(raw)
            /\ \A d \in DimSet : InUnit(n[d])
            /\ RGe(raw.mean_time, b.max_acceptable_time) => n.time = RInt(0)
            /\ raw.mean_time = RInt(0) => n.time = RInt(1)
            /\ RGe(raw.mean_detour, b.max_acceptable_detour) => n.detour = RInt(0)
            /\ raw.mean_detour \in {RInt(0), RInt(1)} => n.detour = RInt(1)
            /\ RGe(raw.mean_errors, b.max_acceptable_errors) => n.errors = RInt(0)
            /\ raw.mean_errors = RInt(0) => n.errors = RInt(1)
            /\ RGe(raw.mean_hesitations, b.max_acceptable_hesitations)
                    => n.hesitations = RInt(0)
            /\ raw.mean_hesitations = RInt(0) => n.hesitations = RInt(1)
            /\ RLe(raw.visual_integration, b.min_visual_integration)
                    => n.visual_integration = RInt(0)
            /\ RGe(raw.visual_integration, b.max_visual_integration)
                    => n.visual_integration = RInt(1)
            /\ RLe(raw.signage_score, b.min_signage_score) => n.signage = RInt(0)
            /\ RGe(raw.signage_score, b.max_signage_score) => n.signage = RInt(1)
            /\ RLe(raw.accessibility, b.min_accessibility_score)
                    => n.accessibility = RInt(0)
            /\ RGe(raw.accessibility, b.max_accessibility_score)
                    => n.accessibility = RInt(1)

ConstructionNeverFatal ==
    given_weights # NoValue =>
        /\ wpc # "raised"
        /\ wpc \in {"ready", "scored", "failed"}

\* C12 as stated: the improvement-priority list has exactly one entry for
\* each dimension whose normalized value v is below 0.9 and none for the
\* others; each entry's impact equals (0.9 - v) * weight of that dimension;
\* entries are ordered by impact descending; each is labeled HIGH if
\* impact > 5, MEDIUM if impact > 2, LOW otherwise.
PrioritiesAsStated ==
    Scored =>
        LET ps == wes.improvement_priorities
            n == normalized_metrics
            below == {d \in DimSet : RLt(n[d], Rat(9, 10))}
        IN  /\ {ps[k].metric : k \in 1..Len(ps)} = below
            /\ Len(ps) = Cardinality(below)
            /\ \A k \in 1..Len(ps) :
                LET e == ps[k]
                IN  /\ e.impact_on_wes
                          = RMul(RSub(Rat(9, 10), n[e.metric]), weights[e.metric])
                    /\ e.priority = (IF RGt(e.impact_on_wes, RInt(5)) THEN "HIGH"
                                     ELSE IF RGt(e.impact_on_wes, RInt(2)) THEN "MEDIUM"
                                     ELSE "LOW")
            /\ \A k \in 1..(Len(ps) - 1) :
                RGe(ps[k].impact_on_wes, ps[k + 1].impact_on_wes)

\* the grades from worst to best, and the place of a grade among them
Grades == <<"F", "D", "C-", "C", "C+", "B-", "B", "B+", "A-", "A", "A+">>
GradeRank(g) == CHOOSE k \in 1..Len(Grades) : Grades[k] = g

\* the band of a score: 1 below 45, then one band every 5 points, 11 from 90
BandOf(s) ==
    IF RLt(s, RInt(45)) THEN 1
    ELSE IF RGe(s, RInt(90)) THEN Len(Grades)
    ELSE 2 + ((s[1] \div s[2]) - 45) \div 5

\* the interpretation that goes with a score
InterpretationOf(s) ==
    IF RGe(s, RInt(90)) THEN "Excellent"
    ELSE IF RGe(s, RInt(75)) THEN "Good"
    ELSE IF RGe(s, RInt(60)) THEN "Acceptable"
    ELSE IF RGe(s, RInt(45)) THEN "Poor"
    ELSE "Critical"

\* scores at, just below and just above every band edge, and the two ends
ScoreProbes ==
    {RInt(0), RInt(100)}
    \cup {Rat(2 * (45 + 5 * b) + j, 2) : b \in 0..9, j \in {-1, 0, 1}}

Banded(s, grade, interpretation) ==
    /\ grade = Grades[BandOf(s)]
    /\ grade = "A+" <=> RGe(s, RInt(90))
    /\ grade = "F" <=> RLt(s, RInt(45))
    /\ interpretation = InterpretationOf(s)
    /\ grade = "A+" <=> interpretation = "Excellent"
    /\ grade = "F" <=> interpretation = "Critical"

\* C13: the letter grade is a fixed-band function of the score: A+ exactly
\* when score >= 90, F exactly when score < 45, the grades between on 5-point
\* bands; the grade never gets worse when the score increases; and the
\* interpretation band (Excellent >= 90, Good >= 75, Acceptable >= 60,
\* Poor >= 45, Critical < 45) is consistent with the grade (A+ iff Excellent,
\* F iff Critical).  Checked for the score reported and for ScoreProbes.
GradeBands ==
    Scored =>
        LET s == wes.wes_score
        IN  /\ Banded(s, wes.grade, wes.interpretation)
            /\ \A t \in ScoreProbes :
                /\ Banded(t, _get_grade(t), _interpret_wes(t))
                /\ RGe(t, s) => GradeRank(_get_grade(t)) >= GradeRank(wes.grade)
                /\ RLe(t, s) => GradeRank(_get_grade(t)) <= GradeRank(wes.grade)

\* C13 witness: a score strictly inside the band 65..70 was graded
GradeBandsWitness ==
    /\ Scored
    /\ RGt(wes.wes_score, RInt(65)) /\ RLt(wes.wes_score, RInt(70))
    /\ wes.grade = "B-" /\ wes.interpretation = "Acceptable"

-----------------------------------------------------------------------------
(* Claims about the aggregation and the rollup *)

\* the sum and the count of a column of the agents, taken over those picked
Picked(as, pick) == {i \in 1..Len(as) : pick[i]}
SumPicked(as, pick, column) ==
    RSum([i \in 1..Len(as) |-> IF pick[i] THEN column[i] ELSE RInt(0)])
MeanPicked(as, pick, column) ==
    IF Picked(as, pick) = {} THEN RInt(0)
    ELSE RDiv(SumPicked(as, pick, column), RInt(Cardinality(Picked(as, pick))))

\* r is the aggregate of the N >= 1 agents as
AggregateOf(r, as) ==
    LET N == Len(as)
        all == [i \in 1..N |-> TRUE]
        succeeded == [i \in 1..N |-> as[i].success]
        first_pass == [i \in 1..N |-> as[i].success /\ as[i].errors = 0]
    IN  /\ r.n_agents = N
        /\ r.success_rate = Rat(Cardinality(Picked(as, succeeded)), N)
        /\ r.first_pass_success = Rat(Cardinality(Picked(as, first_pass)), N)
        /\ r.mean_time =
                MeanPicked(as, succeeded, [i \in 1..N |-> as[i].time_elapsed])
        /\ r.mean_distance =
                MeanPicked(as, succeeded, [i \in 1..N |-> RInt(as[i].distance_traveled)])
        /\ r.mean_errors = MeanPicked(as, all, [i \in 1..N |-> RInt(as[i].errors)])
        /\ r.mean_hesitations =
                MeanPicked(as, all, [i \in 1..N |-> RInt(as[i].hesitations)])
        /\ r.mean_sign_usage =
                MeanPicked(as, all, [i \in 1..N |-> RInt(as[i].sign_usages)])
        /\ RLe(r.first_pass_success, r.success_rate)
        /\ RLe(r.success_rate, RInt(1))

\* C14: for a scenario of N >= 1 agents, the aggregate reports
\* success_rate = (#successful)/N, first_pass_success = (#agents with success
\* and zero errors)/N, mean time and mean distance over the successful agents
\* only (0 when there are none), and mean errors, hesitations and sign usages
\* over all N agents, the failed ones included; hence
\* first_pass_success <= success_rate <= 1.  Checked for every scenario
\* aggregated in a call and, once the call has returned, for the agents of
\* any two of its scenarios taken as one list.
AggregateMetrics ==
    /\ \A k \in 1..Len(all_results) : AggregateOf(all_results[k], outcomes[k])
    /\ pc = "returned" =>
        \A j, k \in 1..Len(outcomes) :
            AggregateOf(_aggregate_scenario_results(outcomes[j] \o outcomes[k]),
                        outcomes[j] \o outcomes[k])

\* C14 witness: a call of two scenarios with two agents each has returned;
\* in the first no agent succeeded, in the second both did, one of them
\* after an error
AggregateMetricsWitness ==
    /\ pc = "returned" /\ Len(all_results) = 2 /\ call.n_agents = 2
    /\ all_results[1].success_rate = RInt(0)
    /\ all_results[2].success_rate = RInt(1)
    /\ all_results[2].first_pass_success = Rat(1, 2)
    /\ RGt(all_results[2].mean_errors, RInt(0))

\* C15: in the cross-scenario rollup, a low-success flag is emitted if and
\* only if some scenario has success rate < 0.7, a high-time flag if and only
\* if some scenario has mean time > 180 s, a high-error flag if and only if
\* some scenario has mean errors > 1.5; when none of the three fires exactly
\* one 'no critical recommendation' message is returned; best_scenario and
\* worst_scenario are scenarios with the maximum and the minimum success rate.
RollupFlags ==
    pc = "returned" =>
        LET rs == result.scenarios
            recs == result.recommendations
            flags == Range(recs)
            low == \E k \in 1..Len(rs) : RLt(rs[k].success_rate, Rat(7, 10))
            slow == \E k \in 1..Len(rs) : RGt(rs[k].mean_time, RInt(180))
            erring == \E k \in 1..Len(rs) : RGt(rs[k].mean_errors, Rat(3, 2))
        IN  /\ rs = all_results
            /\ "low_success" \in flags <=> low
            /\ "high_time" \in flags <=> slow
            /\ "high_errors" \in flags <=> erring
            /\ Len(recs) = Cardinality(flags)
            /\ "no_critical" \in flags <=> ~(low \/ slow \/ erring)
            /\ ~(low \/ slow \/ erring) => recs = <<"no_critical">>
            /\ \E k \in 1..Len(rs) :
                /\ result.overall.best_scenario = rs[k].scenario
                /\ \A j \in 1..Len(rs) : RLe(rs[j].success_rate, rs[k].success_rate)
            /\ \E k \in 1..Len(rs) :
                /\ result.overall.worst_scenario = rs[k].scenario
                /\ \A j \in 1..Len(rs) : RGe(rs[j].success_rate, rs[k].success_rate)

\* C15 witness: a call of two scenarios has returned with the time flag alone:
\* one scenario has a mean time above 180 s, the other one of 180 s or less
RollupFlagsWitness ==
    /\ pc = "returned" /\ Len(result.scenarios) = 2
    /\ result.recommendations = <<"high_time">>
    /\ \E k \in 1..2 : RLe(result.scenarios[k].mean_time, RInt(180))

-----------------------------------------------------------------------------
(* Claims about the Space Syntax analyzer *)

Analyzed == sspc = "analyzed"
Connected(g) == \A s \in Nodes(g), t \in Nodes(g) : HasPath(g, s, t)

\* C16 (as stated): the result of analyze(G) is what a new instance returns
\* for G, and its summary holds the statistics of the degree, closeness,
\* betweenness and integration of G computed in that call, whatever was
\* analyzed before
StatelessAnalyze ==
    Analyzed =>
        /\ ss_metrics = AnalyzeResult(ss_graph, ss_weighted, NoGraph, NoMetrics)
        /\ ss_metrics.summary = _generate_summary(ss_graph, ss_metrics)

\* C18: on a connected graph of more than two nodes, weighted or not, the
\* integration value of every node is finite and not negative
IntegrationFinite ==
    (Analyzed /\ Connected(ss_graph) /\ Cardinality(Nodes(ss_graph)) > 2) =>
        \A node \in Nodes(ss_graph) :
            LET v == ss_metrics.integration[node].value
            IN  v[2] # 0 /\ RGe(v, RInt(0))

\* a connected graph has been analyzed in which one node has a positive
\* integration value and another a negative rra
IntegrationFiniteWitness ==
    /\ Analyzed /\ Connected(ss_graph) /\ Cardinality(Nodes(ss_graph)) > 2
    /\ \E node \in Nodes(ss_graph) :
        RGt(ss_metrics.integration[node].value, RInt(0))
    /\ \E node \in Nodes(ss_graph) :
        /\ RLt(ss_metrics.integration[node].rra, RInt(0))
        /\ ss_metrics.integration[node].value = RInt(0)

\* the lengths of the shortest paths from the node to the other nodes it
\* reaches
DepthsToOthers(g, node, weighted) ==
    LET others == SelectSeq(NodeList(g),
                    LAMBDA t : t # node /\ t \in Reached(g, node))
    IN  [i \in 1..Len(others) |-> RInt(Distance(g, node, others[i], weighted))]

\* C19 (as stated): the mean_depth of a node is the mean length of the
\* shortest paths from it to the other nodes, the node itself left out, and
\* ra is 2 * (mean_depth - 1) / (k - 2) of that value, k the number of nodes
MeanDepthOverOthers ==
    Analyzed =>
        \A node \in Nodes(ss_graph) :
            LET k == Cardinality(Nodes(ss_graph))
                others == DepthsToOthers(ss_graph, node, ss_weighted)
                record == ss_metrics.integration[node]
            IN  (others # <<>> /\ k > 2) =>
                    /\ record.mean_depth = Mean(others)
                    /\ record.ra = RDiv(RMul(RInt(2), RSub(Mean(others), RInt(1))),
                                        RInt(k - 2))

\* the numbers of steps to the node from the identified entrances that reach it
StepsFromEntrances(g, node) ==
    LET from == SelectSeq(_identify_entrances(g),
                    LAMBDA entrance : HasPath(g, entrance, node))
    IN  [i \in 1..Len(from) |-> RInt(Distance(g, from[i], node, FALSE))]

\* C20 (as stated): for every node reached from an identified entrance, the
\* average depth is the arithmetic mean of the numbers of steps from the
\* identified entrances to the node
AverageDepthIsMean ==
    Analyzed =>
        \A node \in Nodes(ss_graph) :
            StepsFromEntrances(ss_graph, node) # <<>> =>
                /\ node \in DOMAIN ss_metrics.depth
                /\ ss_metrics.depth[node].average =
                        Mean(StepsFromEntrances(ss_graph, node))

-----------------------------------------------------------------------------
(* Claims about the fusion of the engines' results *)

\* the column of one aggregate over the scenarios of a simulation result
ScenarioColumn(scenarios, Pick(_)) == [k \in 1..Len(scenarios) |-> Pick(scenarios[k])]

\* C17 (as stated): given the results of the engines themselves, with at
\* least one simulated scenario, calculate_wes completes without raising, and
\* its raw mean_time, mean_errors and mean_hesitations are the means over the
\* simulated scenarios, its visual_integration the mean visual integration of
\* the visibility analysis and its accessibility the mean integration of the
\* Space Syntax analysis
FusesEngineOutputs ==
    (FromEngines(results) /\ results.scenarios # <<>>) =>
        /\ wpc = "scored"
        /\ raw_metrics.mean_time =
                Mean(ScenarioColumn(results.scenarios, LAMBDA x : x.mean_time))
        /\ raw_metrics.mean_errors =
                Mean(ScenarioColumn(results.scenarios, LAMBDA x : x.mean_errors))
        /\ raw_metrics.mean_hesitations =
                Mean(ScenarioColumn(results.scenarios, LAMBDA x : x.mean_hesitations))
        /\ raw_metrics.visual_integration = results.vga_summary.mean_visual_integration
        /\ raw_metrics.accessibility =
                Mean(MapSeq(ValuesOf(PathGraph, results.integration),
                            LAMBDA v : v.value))

-----------------------------------------------------------------------------
(* Claims about graphs that are not connected *)

Isolated(g, node) == Degree(g, node) = 0

\* the per-node measures of the result whose keys are the nodes
PerNodeMeasures(metrics) ==
    <<metrics.degree, metrics.closeness, metrics.betweenness,
      metrics.integration, metrics.choice, metrics.connectivity,
      metrics.control, metrics.controllability>>

\* the nodes some identified entrance reaches
ReachedFromEntrances(g) ==
    UNION {Reached(g, e) : e \in Range(_identify_entrances(g))}

\* connectivity is infinite at every node, and the integration value of an
\* isolated node is 0
InfiniteAndZero ==
    \A node \in Nodes(ss_graph) :
        /\ ss_metrics.connectivity[node] = Infinity
        /\ Isolated(ss_graph, node) =>
                ss_metrics.integration[node].value = RInt(0)

\* C21 (as stated): analyze returns, for a graph that is not connected, a
\* value for every node in every measure, depth among them, with an infinite
\* connectivity at every node and integration 0 at isolated nodes
DisconnectedAnalyzedAsStated ==
    (Analyzed /\ ~Connected(ss_graph)) =>
        /\ \A i \in 1..Len(PerNodeMeasures(ss_metrics)) :
                DOMAIN PerNodeMeasures(ss_metrics)[i] = Nodes(ss_graph)
        /\ DOMAIN ss_metrics.depth = Nodes(ss_graph)
        /\ InfiniteAndZero

\* C21 (as the code has it): analyze returns, for a graph that is not
\* connected, a value for every node in every measure but depth, which holds
\* the nodes that an identified entrance reaches and no others; connectivity
\* is infinite at every node and the integration of isolated nodes is 0
DisconnectedAnalyzed ==
    (Analyzed /\ ~Connected(ss_graph)) =>
        /\ \A i \in 1..Len(PerNodeMeasures(ss_metrics)) :
                DOMAIN PerNodeMeasures(ss_metrics)[i] = Nodes(ss_graph)
        /\ DOMAIN ss_metrics.depth = ReachedFromEntrances(ss_graph)
        /\ InfiniteAndZero

\* a graph with an isolated node has been analyzed in which no entrance
\* reaches some node
DisconnectedAnalyzedWitness ==
    /\ Analyzed /\ ~Connected(ss_graph)
    /\ \E node \in Nodes(ss_graph) : Isolated(ss_graph, node)
    /\ ReachedFromEntrances(ss_graph) # Nodes(ss_graph)
    /\ DOMAIN ss_metrics.connectivity = Nodes(ss_graph)

-----------------------------------------------------------------------------
(* Claims about the critical nodes *)

\* the values of a ranking do not rise
Descending(ranking) ==
    \A i \in 1..(Len(ranking) - 1) : RGe(ranking[i][2], ranking[i + 1][2])

\* C22 (as stated): on an instance that has analyzed a graph,
\* identify_critical_nodes(top_n) returns three rankings, by betweenness, by
\* integration value and by degree, each of at most top_n (node, value) pairs
\* in descending order
CriticalNodesRanked ==
    (sspc \in {"ranked", "raised"} /\ ss_metrics # NoMetrics) =>
        /\ sspc = "ranked"
        /\ DOMAIN critical = {"high_betweenness", "high_integration", "high_degree"}
        /\ \A name \in DOMAIN critical :
            /\ Len(critical[name]) <= top_n
            /\ Descending(critical[name])

-----------------------------------------------------------------------------
(* Claims about the visibility analyzer *)

VGAReturned == vpc = "returned"
Blocked(p, q) == \E k \in 1..Len(obstacles) : Intersects(<<p, q>>, obstacles[k])
AmongFirst(points, p) == \E i \in 1..IMin(FirstPoints, Len(points)) : points[i] = p

\* C23: the visibility graph analyze builds has every sample point as a
\* node, and an edge between p and q only if no obstacle intersects the
\* segment from p to q, p and q are less than the threshold distance apart,
\* and both are among the first points of the sample, up to the limit of
\* the edge loops
VisibilityEdgesSound ==
    VGAReturned =>
        /\ Range(visibility_graph.nodes) = Range(vga_call.sample_points)
        /\ \A e \in visibility_graph.edges :
            /\ ~Blocked(e[1], e[2])
            /\ DistSq(e[1], e[2]) < threshold_distance * threshold_distance
            /\ AmongFirst(vga_call.sample_points, e[1])
            /\ AmongFirst(vga_call.sample_points, e[2])

\* a graph has been built with an edge, while a wall blocks one close pair
\* of the first points, another pair of them is too far apart, and a point
\* beyond the limit has no edge to a close point it sees
VisibilityEdgesSoundWitness ==
    /\ VGAReturned
    /\ visibility_graph.edges # {}
    /\ LET points == vga_call.sample_points
       IN  /\ \E p, q \in Range(points) :
                /\ AmongFirst(points, p) /\ AmongFirst(points, q) /\ p # q
                /\ Near(p, q) /\ Blocked(p, q)
           /\ \E p, q \in Range(points) :
                /\ AmongFirst(points, p) /\ AmongFirst(points, q)
                /\ ~Near(p, q) /\ ~Blocked(p, q)
           /\ \E p, q \in Range(points) :
                /\ ~AmongFirst(points, q) /\ p # q
                /\ Near(p, q) /\ ~Blocked(p, q)
                /\ <<p, q>> \notin visibility_graph.edges
                /\ <<q, p>> \notin visibility_graph.edges

\* the metrics of the run of the last call had nothing failed
CleanMetrics ==
    LET points == vga_call.sample_points
        isovists == _calculate_isovists(obstacles, points, {})
    IN  _calculate_vga_metrics(VisibilityGraph(obstacles, points, isovists),
                               isovists, {})

\* C24 (as stated): when the isovist of a point, the line of sight of a pair
\* or the metrics of a node fail, analyze still returns a result: the point
\* whose isovist failed has isovist area 0, the node whose metrics failed
\* has zero metrics, and every other point has the metrics of a run in
\* which nothing fails
FailuresDegradeOnePoint ==
    (vpc \in {"returned", "raised"}) =>
        /\ vpc = "returned"
        /\ \A p \in Range(vga_call.sample_points) :
            IF p \in vga_call.faults.isovist
            THEN vga_result.vga_metrics[p].isovist_area = RInt(0)
            ELSE IF p \in vga_call.faults.metrics
            THEN vga_result.vga_metrics[p] = FailedMetrics
            ELSE vga_result.vga_metrics[p] = CleanMetrics[p]

\* the distance from the origin of a call to a point on one of its rays
Reach(orig, point) ==
    RAdd(RAbs(RSub(point[1], RInt(orig[1]))), RAbs(RSub(point[2], RInt(orig[2]))))

\* an obstacle lies along the ray from orig in direction d
LiesAlong(orig, d, obstacle) ==
    Across(orig, d, obstacle[1]) = 0 /\ Across(orig, d, obstacle[2]) = 0

\* a length no ray of the model reaches
FarAway == 5000

\* the distances at which obstacles cross the ray from orig in direction d
Crossings(orig, d) ==
    {RayHit(orig, d, FarAway, obstacles[k])[1] :
        k \in {k \in 1..Len(obstacles) : RayHit(orig, d, FarAway, obstacles[k]) # <<>>}}

\* min(max_distance, distance to the nearest crossing)
Capped(r, crossings) ==
    IF \E c \in crossings : RLt(c, RInt(r))
    THEN CHOOSE c \in crossings : \A c2 \in crossings : RLe(c, c2)
    ELSE RInt(r)

\* C25: with the origin, the obstacles and the number of rays fixed, the
\* isovist polygon of a larger max_distance has an area that is not
\* smaller and no ray that is shorter; a ray along which no obstacle lies
\* ends at min(max_distance, distance to the nearest obstacle crossing it)
IsovistAreaMonotone ==
    (vpc = "measured") =>
        LET o == vga_call.origin
            n == vga_call.n_rays
            larger == vga_result.polygon
        IN  /\ \A r \in Radii :
                r <= vga_call.max_distance =>
                    LET smaller == IsovistPolygon(obstacles, o, n, r)
                    IN  /\ RLe(Area(smaller), Area(larger))
                        /\ \A i \in 1..Len(smaller) :
                            RLe(Reach(o, smaller[i]), Reach(o, larger[i]))
            /\ \A i \in 1..Len(larger) :
                (\A k \in 1..Len(obstacles) :
                    ~LiesAlong(o, Directions(n)[i], obstacles[k])) =>
                        Reach(o, larger[i]) =
                            Capped(vga_call.max_distance,
                                   Crossings(o, Directions(n)[i]))

\* a polygon of four rays has been computed of which one ends at an
\* obstacle, and a smaller max_distance gives a polygon of smaller area
IsovistAreaMonotoneWitness ==
    /\ vpc = "measured"
    /\ vga_call.n_rays = 4
    /\ \E i \in 1..4 :
        RLt(Reach(vga_call.origin, vga_result.polygon[i]),
            RInt(vga_call.max_distance))
    /\ \E r \in Radii :
        /\ r < vga_call.max_distance
        /\ RLt(Area(IsovistPolygon(obstacles, vga_call.origin, 4, r)),
               Area(vga_result.polygon))

-----------------------------------------------------------------------------
(* Claims about the walk of an agent *)

\* the iteration about to run deviates: its draw is below the error
\* probability at the node the agent stands on
Deviates ==
    Uniform(rng) < _get_error_probability(graph, signage_locations, landmarks,
                                          agent.agent_type, walk.current)

\* C26: an iteration of the walk that does not deviate adds 1 to sign_usages
\* if the node the agent stands on or the next node of the optimal path is in
\* the signage catalog, and 0 otherwise; a deviating iteration, with the
\* correction path it appends, and the end of the journey leave sign_usages
\* as it is; so sign_usages never exceeds the number of edges of the optimal
\* path
SignUsagesCounted ==
    [][/\ WalkStep =>
            agent'.sign_usages = agent.sign_usages +
                (IF ~Deviates /\ (walk.current \in signage_locations
                                  \/ walk.optimal_path[walk.i] \in signage_locations)
                 THEN 1 ELSE 0)
       /\ (agent.state = "TRAVELING" /\ agent'.state \in Terminal) =>
            agent'.sign_usages = agent.sign_usages
       /\ agent'.state \in {"TRAVELING"} \cup Terminal =>
            agent'.sign_usages <= IMax(Len(walk'.optimal_path) - 1, 0)
      ]_vars

\* an agent has finished that used signage on one step, passed a step
\* without signage and deviated on another
SignUsagesCountedWitness ==
    /\ agent.state \in Terminal
    /\ signage_locations # {}
    /\ agent.sign_usages >= 1
    /\ agent.errors >= 1
    /\ agent.sign_usages + agent.errors < Len(walk.optimal_path) - 1

\* the current scenario joins two nodes of the graph that a path connects
ConnectedScenario(g, o, d) ==
    o \in Nodes(g) /\ d \in Nodes(g) /\ HasPath(g, o, d)

\* C27: an agent whose origin and destination are nodes of the graph that a
\* path connects always has a step of its journey to take until its outcome
\* is set, each step brings the end nearer, and the outcome is SUCCEEDED with
\* a path that ends at the destination, whatever its type and its
\* deviations; the success rate of a scenario is 1 when its endpoints are
\* connected and 0 otherwise
ConnectedAgentsSucceed ==
    /\ []((pc = "journey" /\ ConnectedScenario(graph, origin, destination)) =>
            /\ Traveling => JourneyStepEnabled
            /\ agent.state # "FAILED"
            /\ agent.state = "SUCCEEDED" =>
                  agent.path[Len(agent.path)] = destination)
    /\ [](\A k \in 1..Len(all_results) :
            all_results[k].success_rate =
                IF ConnectedScenario(graph, call.scenarios[k].origin,
                                     call.scenarios[k].destination)
                THEN RInt(1) ELSE RInt(0))
    /\ [][(Traveling /\ agent' # agent) => Remaining' < Remaining]_vars

\* a scenario with connected endpoints has been aggregated in which both
\* agents deviated, one of them off the optimal path
ConnectedAgentsSucceedWitness ==
    /\ pc = "scenarios" /\ Len(all_results) >= 1
    /\ ConnectedScenario(graph, call.scenarios[1].origin,
                         call.scenarios[1].destination)
    /\ Len(outcomes[1]) = 2
    /\ outcomes[1][1].errors > 0 /\ outcomes[1][2].errors > 0
    /\ \E j \in 1..2 : outcomes[1][j].hesitations > 0
    /\ all_results[1].success_rate = RInt(1)

\* consecutive nodes of the path are joined by an edge of the graph
IsWalk(g, path) ==
    \A k \in 1..(Len(path) - 1) : HasEdge(g, path[k], path[k + 1])

\* the weights of all the steps of a path
RECURSIVE StepWeights(_, _)
StepWeights(g, path) ==
    IF Len(path) < 2 THEN 0
    ELSE EdgeWeight(g, path[1], path[2]) + StepWeights(g, Tail(path))

\* the least weight of a simple path from s to t
ShortestDistance(g, s, t) ==
    LET ws == {StepWeights(g, p) : p \in PathsFrom(g, <<s>>, t)}
    IN  CHOOSE w \in ws : \A w2 \in ws : w <= w2

\* C28: the path of an agent, while it walks and when it has finished, is a
\* walk in the graph that starts at the origin; the distance of a finished
\* agent is the weight of all the steps of its path, and for a successful
\* agent it is not less than the shortest-path distance from the origin to
\* the destination
PathIsWalk ==
    /\ (agent.state = "TRAVELING") =>
          /\ walk.actual_path[1] = origin
          /\ IsWalk(graph, walk.actual_path)
    /\ (agent.state \in Terminal /\ agent.path # <<>>) =>
          /\ agent.path[1] = origin
          /\ IsWalk(graph, agent.path)
          /\ agent.distance_traveled = StepWeights(graph, agent.path)
          /\ agent.success =>
                agent.distance_traveled
                    >= ShortestDistance(graph, origin, destination)

\* a successful agent has left the optimal path and walked farther than the
\* shortest distance
PathIsWalkWitness ==
    /\ agent.state = "SUCCEEDED"
    /\ agent.hesitations = 1
    /\ agent.distance_traveled > ShortestDistance(graph, origin, destination)

-----------------------------------------------------------------------------
(* Claims about the order of integration *)

\* C29 (as stated): in a connected graph of more than two nodes, a node of
\* smaller mean depth has an integration value that is not smaller, so a
\* node of least mean depth has the greatest integration value
IntegrationOrdersByDepth ==
    (Analyzed /\ Connected(ss_graph) /\ Cardinality(Nodes(ss_graph)) > 2) =>
        \A u, v \in Nodes(ss_graph) :
            RLt(ss_metrics.integration[u].mean_depth,
                ss_metrics.integration[v].mean_depth) =>
                    RGe(ss_metrics.integration[u].value,
                        ss_metrics.integration[v].value)

-----------------------------------------------------------------------------
(* Claims about the score breakdown *)

AllInUnit(n) == \A d \in DimSet : InUnit(n[d])
SumOver(c, dims) == RSum([i \in 1..Len(dims) |-> c[dims[i]]])

\* C30: for normalized metrics in [0, 1] and weights that are not negative,
\* every penalty contribution is <= 0, every bonus contribution is >= 0 and
\* wes_score is 100 plus the sum of the seven contributions, clamped to
\* [0, 100]; with the default weights the score is never below 100 minus
\* the sum of the four penalty weights
ScoreBreakdownAddsUp ==
    (Scored /\ AllInUnit(normalized_metrics) /\ NonNegative(weights)) =>
        LET c == wes.component_contributions
            total == RAdd(RInt(100), SumOver(c, Dims))
        IN  /\ \A d \in PenaltyDims : RLe(c[d], RInt(0))
            /\ \A d \in BonusDims : RGe(c[d], RInt(0))
            /\ wes.wes_score = RMax(RInt(0), RMin(RInt(100), total))
            /\ weights = WESWeights =>
                  RGe(wes.wes_score,
                      RSub(RInt(100), SumOver(WESWeights, SubSeq(Dims, 1, 4))))

\* a building has been scored with weights other than the defaults, a
\* penalty and a bonus that are not zero, and a score below the clamp
ScoreBreakdownAddsUpWitness ==
    /\ Scored /\ AllInUnit(normalized_metrics) /\ NonNegative(weights)
    /\ weights # WESWeights
    /\ \E d \in PenaltyDims : RLt(wes.component_contributions[d], RInt(0))
    /\ \E d \in BonusDims : RGt(wes.component_contributions[d], RInt(0))
    /\ RLt(wes.wes_score, RInt(100))

====
